---------------------------- MODULE Spec2Model ----------------------------
(***************************************************************************)
(* Axiump: parametric blade / rotor geometry.                               *)
(*                                                                         *)
(* Four specifications over one set of variables:                          *)
(*   SpecFaces  BladeBuilder._create_blade_faces (blade.py), the seam       *)
(*              partition of the chordwise samples;                        *)
(*   SpecRotor  RotorBuilder (rotor.py): add_hub, add_shroud, add_blades,   *)
(*              get_occ_solid;                                             *)
(*   SpecGen    generate_rotor (examples/ex_random_rotor.py), the fillet    *)
(*              backoff loop (SpecGenFair adds the fairness of a running    *)
(*              sequential program);                                       *)
(*   SpecEdge   is_edge_at_radius (blade.py).                               *)
(*                                                                         *)
(* Numbers.  Chordwise parameters are exact rationals with the common      *)
(* denominator Den(u_points): the value 1.0 is the integer Den(u_points).  *)
(* Lengths (coordinates, radii, the cap tolerance) are integers in units   *)
(* of BLADE_CAP_RADIUS_TOL, and a distance is carried by its exact square, *)
(* so that the tolerance test is decided without rounding.  The fillet     *)
(* factor is a fixed-point number with One units per 1.0.                  *)
(* Calls into the CAD kernel are nondeterministic: they succeed or raise.  *)
(***************************************************************************)
EXTENDS Integers, Sequences, FiniteSets

VARIABLES
    \* ---- BladeBuilder._create_blade_faces / get_occ_solid
    bf_pc,        \* "call" | "patch" | "returned" | "raised"
    bf_entry,     \* "_create_blade_faces" | "get_occ_solid": the method called
    DEFAULT_SEAMS, \* the module-level list, in quarters of the unit
    seams_default, \* TRUE when u_seams was left to its default: it is DEFAULT_SEAMS
    u_seams,      \* the list object passed as u_seams (sorted in place)
    seams_in,     \* its elements when the call was made
    u_points,     \* number of chordwise points
    v_points,     \* number of spanwise points
    u_func,       \* "id" | "sq": the chordwise easing function
    method,       \* fit-method selector
    u_vals,       \* the chordwise sample array
    sampled,      \* TRUE once the sample array has been generated
    bf_i,         \* loop index of the patch loop (0-based, as in the source)
    faces,        \* per patch built: its loc_u_vals
    evals,        \* number of blade_func evaluations made so far
    bf_err,       \* exception raised, "none" if none
    \* ---- RotorBuilder
    params,       \* RotorParameters fields the builder reads, and the blade geometry
    parts,        \* RotorBuilder.parts
    fillet_edges, \* RotorBuilder.fillet_edges
    hist,         \* builder operations that completed and appended parts, in call order
    last,         \* what the last builder call did
    \* ---- generate_rotor
    gen_pc,       \* "call" | "try" | "returned" | "raised"
    thickness,    \* params["thickness"]
    fact,         \* fillet radius factor, fixed point
    attempts,     \* build attempts started so far
    fillet_fails, \* FilletSolidError caught so far
    gen_log,      \* per attempt: factor used, call reached, fillet step run, outcome
    gen_err,      \* exception that left generate_rotor, "none" if none
    \* ---- is_edge_at_radius
    ie_pc,        \* "call" | "done"
    ie_edge,      \* the edge: its vertices in exploration order
    ie_r0,        \* target_radius
    ie_ret,       \* returned value
    ie_seen,      \* vertices examined before returning
    \* ---- BladeBuilder.get_occ_solid after the patch faces
    gs_pc,        \* "faces" | "top" | "bottom" | "returned" | "raised"
    patch_edges,  \* per patch face, the edges the kernel gave it
    top_cap,      \* the cap face at max_radius
    bottom_cap,   \* the cap face at min_radius
    blade_solid,  \* the solid returned
    gs_err,       \* the exception raised after the patch faces, and where
    \* ---- a call of a function of profile.py, geom.py, occ.py or blade.py
    pf_pc,        \* "call" | "done"
    pf_in,        \* the arguments
    pf_out        \* what the call returned or raised

bfVars == <<bf_pc, bf_entry, DEFAULT_SEAMS, seams_default, u_seams, seams_in,
            u_points, v_points, u_func, method, u_vals, sampled, bf_i, faces,
            evals, bf_err>>
rbVars == <<params, parts, fillet_edges, hist, last>>
genVars == <<gen_pc, thickness, fact, attempts, fillet_fails, gen_log, gen_err>>
ieVars == <<ie_pc, ie_edge, ie_r0, ie_ret, ie_seen>>
gsVars == <<gs_pc, patch_edges, top_cap, bottom_cap, blade_solid, gs_err>>
pfVars == <<pf_pc, pf_in, pf_out>>
vars == <<bfVars, rbVars, genVars, ieVars, gsVars, pfVars>>

-----------------------------------------------------------------------------
(* Bounds of the model.                                                    *)
MaxSeams == 3          \* longest seam list
MaxUPoints == 4        \* largest u_points
SeamDiv == 4           \* seam candidates are k/SeamDiv, k = 0..SeamDiv
MaxVPoints == 2        \* largest v_points
MaxOps == 4            \* builder operations that append parts, per builder
MaxZ == 6              \* largest Z coordinate of a vertex handed to is_edge_at_radius
MaxEdgeVertices == 2   \* most vertices of an edge handed to is_edge_at_radius
MaxRecallSeams == 2    \* longest seam list of a call in a sequence of calls

(* Program constants.                                                      *)
INTERP == 0
APPROX == 1
BLADE_CAP_RADIUS_TOL == 1   \* the unit of length of the model

-----------------------------------------------------------------------------
(* Sequence helpers (Python list / numpy array operations).                *)

RECURSIVE InsertSorted(_, _)
InsertSorted(s, x) ==
    IF s = <<>> THEN <<x>>
    ELSE IF x <= Head(s) THEN <<x>> \o s
    ELSE <<Head(s)>> \o InsertSorted(Tail(s), x)

Range(s) == {s[k] : k \in 1..Len(s)}

np_unique(s) ==
    [k \in 1..Cardinality(Range(s)) |->
        CHOOSE x \in Range(s) : Cardinality({y \in Range(s) : y < x}) = k - 1]

\* list.sort() and np.sort: ascending order, duplicates kept
RECURSIVE np_sort(_)
np_sort(s) == IF s = <<>> THEN <<>> ELSE InsertSorted(np_sort(Tail(s)), Head(s))

\* a[1:-1]
Inner(s) == IF Len(s) <= 2 THEN <<>> ELSE SubSeq(s, 2, Len(s) - 1)

\* a[a >= lo], a[a <= hi], a[(a >= lo) & (a <= hi)]
MaskGe(s, lo) == SelectSeq(s, LAMBDA x : x >= lo)
MaskLe(s, hi) == SelectSeq(s, LAMBDA x : x <= hi)
MaskBetween(s, lo, hi) == SelectSeq(s, LAMBDA x : x >= lo /\ x <= hi)

-----------------------------------------------------------------------------
(* Chordwise sampling, blade.py lines 141-150.                             *)

\* the integer that stands for 1.0 when u_points = n
Den(n) == 4 * (n - 1) * (n - 1)

\* np.linspace(0, 1, n), n >= 2
Linspace(n) == [k \in 1..n |-> (k - 1) * 4 * (n - 1)]

\* u_func applied elementwise: the identity (the default) or x -> x*x
Ease(f, s, n) == [k \in 1..Len(s) |-> IF f = "sq" THEN (s[k] * s[k]) \div Den(n) ELSE s[k]]

\* u_func(linspace)/2 ++ (u_func(linspace)[1:-1]/2 + 0.5)
Samples(f, n) ==
    LET e == Ease(f, Linspace(n), n)
        firstSide == [k \in 1..Len(e) |-> e[k] \div 2]
        mid == Inner(e)
        secondSide == [k \in 1..Len(mid) |-> mid[k] \div 2 + Den(n) \div 2]
    IN firstSide \o secondSide

RECURSIVE InsertSeamsAlways(_, _)
InsertSeamsAlways(vals, seams) ==
    IF seams = <<>> THEN vals
    ELSE InsertSeamsAlways(np_sort(Append(vals, Head(seams))), Tail(seams))

\* for seam in u_seams: if seam not in u_vals: u_vals = np.sort(np.append(u_vals, seam))
RECURSIVE InsertSeams(_, _)
InsertSeams(vals, seams) ==
    IF seams = <<>> THEN vals
    ELSE InsertSeams(IF Head(seams) \in Range(vals) THEN vals
                     ELSE np_sort(Append(vals, Head(seams))),
                     Tail(seams))

LocUValsWide(vals, seams, i) == vals

LocUValsStrict(vals, seams, i) ==
    IF i = 0 THEN MaskGe(vals, seams[Len(seams)]) \o MaskLe(vals, seams[1])
    ELSE SelectSeq(vals, LAMBDA x : x > seams[i] /\ x <= seams[i + 1])

\* loc_u_vals of patch i (0-based); seams is the sorted list, 1-based here
LocUVals(vals, seams, i) ==
    IF i = 0 THEN MaskGe(vals, seams[Len(seams)]) \o MaskLe(vals, seams[1])
    ELSE MaskBetween(vals, seams[i], seams[i + 1])

-----------------------------------------------------------------------------
(* BladeBuilder._create_blade_faces, blade.py lines 115-172, reached either *)
(* directly or through BladeBuilder.get_occ_solid (lines 110), which passes *)
(* no method and so uses the default APPROX.                                *)

\* seam candidates for u_points = n: k/SeamDiv of the unit, rounded down
SeamVals(n) == {(k * Den(n)) \div SeamDiv : k \in 0..SeamDiv}

SeamLists(n) == UNION {[1..len -> SeamVals(n)] : len \in 0..MaxSeams}

Methods == {INTERP, APPROX, 2}

\* line 40: DEFAULT_SEAMS = [0.25, 0.75], in quarters of the unit
DefaultSeamsLiteral == <<1, 3>>

\* a list of quarters in the units of a call with u_points = n
Quarters(q, n) == [k \in 1..Len(q) |-> q[k] * (Den(n) \div 4)]

bfIdle ==
    /\ bf_pc = "idle" /\ bf_entry = "none" /\ u_seams = <<>> /\ seams_in = <<>>
    /\ DEFAULT_SEAMS = DefaultSeamsLiteral /\ seams_default = FALSE
    /\ u_points = 2 /\ v_points = 1 /\ u_func = "id" /\ method = APPROX
    /\ u_vals = <<>> /\ sampled = FALSE /\ bf_i = 0 /\ faces = <<>> /\ evals = 0
    /\ bf_err = "none"

\* lines 138-150 with the check of the seam list made after the sampling
EnterCreateBladeFacesLate ==
    /\ bf_pc = "call"
    /\ u_seams' = np_sort(u_seams)
    /\ u_vals' = InsertSeams(Samples(u_func, u_points), np_sort(u_seams))
    /\ sampled' = TRUE
    /\ DEFAULT_SEAMS' = IF seams_default THEN np_sort(DEFAULT_SEAMS) ELSE DEFAULT_SEAMS
    /\ IF u_seams = <<>>
       THEN bf_pc' = "raised" /\ bf_err' = "ValueError"
       ELSE bf_pc' = "patch" /\ bf_err' = bf_err
    /\ UNCHANGED <<bf_entry, seams_default, seams_in, u_points, v_points, u_func,
                   method, bf_i, faces, evals>>

\* lines 138-151: the seam check, the in-place sort, the sample array
EnterCreateBladeFaces ==
    /\ bf_pc = "call"
    /\ IF u_seams = <<>>
       THEN /\ bf_pc' = "raised"
            /\ bf_err' = "ValueError"
            /\ UNCHANGED <<DEFAULT_SEAMS, u_seams, u_vals, sampled>>
       ELSE /\ u_seams' = np_sort(u_seams)
            /\ DEFAULT_SEAMS' = IF seams_default THEN np_sort(DEFAULT_SEAMS)
                                 ELSE DEFAULT_SEAMS
            /\ u_vals' = InsertSeams(Samples(u_func, u_points), np_sort(u_seams))
            /\ sampled' = TRUE
            /\ bf_pc' = "patch"
            /\ bf_err' = bf_err
    /\ UNCHANGED <<bf_entry, seams_default, seams_in, u_points, v_points, u_func,
                   method, bf_i, faces, evals>>

\* lines 153-172: one iteration of the patch loop. The point grid is evaluated
\* (one blade_func call per (u, v)) before the method selector is looked at.
BuildPatch ==
    /\ bf_pc = "patch"
    /\ LET loc == LocUVals(u_vals, u_seams, bf_i) IN
       /\ evals' = evals + Len(loc) * v_points
       /\ \E fit_ok \in BOOLEAN :
          IF method \notin {APPROX, INTERP}
          THEN bf_pc' = "raised" /\ bf_err' = "ValueError" /\ UNCHANGED <<faces, bf_i>>
          ELSE IF ~fit_ok
          THEN bf_pc' = "raised" /\ bf_err' = "RuntimeError" /\ UNCHANGED <<faces, bf_i>>
          ELSE /\ faces' = Append(faces, loc)
               /\ bf_i' = bf_i + 1
               /\ bf_pc' = IF bf_i + 1 = Len(u_seams) THEN "returned" ELSE "patch"
               /\ bf_err' = bf_err
    /\ UNCHANGED <<bf_entry, DEFAULT_SEAMS, seams_default, u_seams, seams_in,
                   u_points, v_points, u_func, method, u_vals, sampled>>

\* the record of a builder call: nothing called yet
NoCall == [op |-> "none", err |-> "none", radius |-> 0, union_done |-> FALSE,
           reported |-> <<>>, fillet_invoked |-> FALSE, fillet_arg |-> <<>>,
           solid |-> FALSE]

rbIdle ==
    /\ params = [n_blades |-> 0, hub_radius |-> 0, blade_max_radius |-> 0,
                 blade_dx |-> 0, blade |-> <<>>]
    /\ parts = <<>> /\ fillet_edges = <<>> /\ hist = <<>>
    /\ last = NoCall

genIdle ==
    /\ gen_pc = "idle" /\ thickness = 0 /\ fact = 0 /\ attempts = 0
    /\ fillet_fails = 0 /\ gen_log = <<>> /\ gen_err = "none"

ieIdle ==
    /\ ie_pc = "idle" /\ ie_edge = <<>> /\ ie_r0 = 0 /\ ie_ret = FALSE /\ ie_seen = 0

\* no face, no solid, no exception
NoShape == [kind |-> "none"]
NoError == [type |-> "none", at |-> "none", why |-> "none"]

gsIdle ==
    /\ gs_pc = "idle" /\ patch_edges = <<>> /\ top_cap = NoShape
    /\ bottom_cap = NoShape /\ blade_solid = NoShape /\ gs_err = NoError

pfIdle ==
    /\ pf_pc = "idle" /\ pf_in = <<>> /\ pf_out = <<>>

\* the entry points: _create_blade_faces itself, BladeBuilder.get_occ_solid
\* (line 110) and RotorBuilder.add_blades (rotor.py line 44), which pass
\* u_seams on and leave method to its default
Entries == {"_create_blade_faces", "get_occ_solid", "add_blades"}

\* the arguments of a call but u_seams: any sampling, and whether u_seams is
\* given or left to its default, which binds the DEFAULT_SEAMS object
CallArgs ==
    {a \in [entry : Entries, u_points : 2..MaxUPoints, v_points : 1..MaxVPoints,
            u_func : {"id", "sq"}, method : Methods, by_default : BOOLEAN] :
        a.entry # "_create_blade_faces" => a.method = APPROX}

\* the list bound to u_seams: a list of the caller (unsorted, repeated or
\* empty, at most len long) or DEFAULT_SEAMS
SeamArgs(a, len) ==
    IF a.by_default THEN {Quarters(DEFAULT_SEAMS, a.u_points)}
    ELSE {l \in SeamLists(a.u_points) : Len(l) <= len}

InitFaces ==
    /\ bf_pc = "call"
    /\ DEFAULT_SEAMS = DefaultSeamsLiteral
    /\ \E a \in CallArgs :
          /\ bf_entry = a.entry
          /\ u_points = a.u_points /\ v_points = a.v_points
          /\ u_func = a.u_func /\ method = a.method
          /\ seams_default = a.by_default
          /\ u_seams \in SeamArgs(a, MaxSeams)
    /\ seams_in = u_seams
    /\ u_vals = <<>> /\ sampled = FALSE /\ bf_i = 0 /\ faces = <<>> /\ evals = 0
    /\ bf_err = "none"
    /\ rbIdle /\ genIdle /\ ieIdle /\ gsIdle /\ pfIdle

NextFaces ==
    \/ EnterCreateBladeFaces /\ UNCHANGED <<rbVars, genVars, ieVars, gsVars, pfVars>>
    \/ BuildPatch /\ UNCHANGED <<rbVars, genVars, ieVars, gsVars, pfVars>>

SpecFaces == InitFaces /\ [][NextFaces]_vars

\* Sequences of calls: the caller calls again after a return or a raise, on
\* the coarsest sampling and with a list of at most MaxRecallSeams seams;
\* DEFAULT_SEAMS is the object the calls before have left.
RecallArgs == {a \in CallArgs : a.u_points = 2 /\ a.v_points = 1 /\ a.u_func = "id"}

InitSeams ==
    /\ bf_pc = "call"
    /\ DEFAULT_SEAMS = DefaultSeamsLiteral
    /\ \E a \in RecallArgs :
          /\ bf_entry = a.entry
          /\ u_points = a.u_points /\ v_points = a.v_points
          /\ u_func = a.u_func /\ method = a.method
          /\ seams_default = a.by_default
          /\ u_seams \in SeamArgs(a, MaxRecallSeams)
    /\ seams_in = u_seams
    /\ u_vals = <<>> /\ sampled = FALSE /\ bf_i = 0 /\ faces = <<>> /\ evals = 0
    /\ bf_err = "none"
    /\ rbIdle /\ genIdle /\ ieIdle /\ gsIdle /\ pfIdle

CallAgain ==
    /\ bf_pc \in {"returned", "raised"}
    /\ bf_pc' = "call"
    /\ UNCHANGED DEFAULT_SEAMS
    /\ \E a \in RecallArgs :
          /\ bf_entry' = a.entry
          /\ u_points' = a.u_points /\ v_points' = a.v_points
          /\ u_func' = a.u_func /\ method' = a.method
          /\ seams_default' = a.by_default
          /\ u_seams' \in SeamArgs(a, MaxRecallSeams)
    /\ seams_in' = u_seams'
    /\ u_vals' = <<>> /\ sampled' = FALSE /\ bf_i' = 0 /\ faces' = <<>> /\ evals' = 0
    /\ bf_err' = "none"

NextSeams ==
    \/ EnterCreateBladeFaces /\ UNCHANGED <<rbVars, genVars, ieVars, gsVars, pfVars>>
    \/ BuildPatch /\ UNCHANGED <<rbVars, genVars, ieVars, gsVars, pfVars>>
    \/ CallAgain /\ UNCHANGED <<rbVars, genVars, ieVars, gsVars, pfVars>>

SpecSeams == InitSeams /\ [][NextSeams]_vars

-----------------------------------------------------------------------------
(* Properties of the seam partition.                                       *)

Distinct(s) == \A a, b \in 1..Len(s) : a # b => s[a] # s[b]

\* the j-th smallest seam of the call (j = 1 is seam[0] of the sorted list)
SeamRank(j) ==
    CHOOSE x \in Range(seams_in) : Cardinality({y \in Range(seams_in) : y < x}) = j - 1

\* x directly followed by y somewhere in sequence s
Adjacent(s, x, y) == \E p \in 1..(Len(s) - 1) : s[p] = x /\ s[p + 1] = y

\* number of positions of s holding x
Occurrences(s, x) == Cardinality({p \in 1..Len(s) : s[p] = x})

SeamCall == bf_pc = "returned" /\ Distinct(seams_in)

\* C1: for a non-empty list of distinct seams in [0,1], once the faces are
\* built every sample lies in some sub-range; sub-range i >= 1 starts exactly
\* at seam[i-1] and ends exactly at seam[i]; sub-range 0 starts at the last
\* seam, runs to the end of the sample set, continues from its first element
\* (0) and ends exactly at the first seam; and two neighbouring samples
\* (the last and the first included) always sit side by side in one
\* sub-range, so the sub-ranges leave no gap.
C1_SeamCoverage ==
    SeamCall =>
        LET n == Len(faces) IN
        /\ \A k \in 1..Len(u_vals) : \E j \in 1..n : u_vals[k] \in Range(faces[j])
        /\ \A j \in 2..n :
              /\ Head(faces[j]) = SeamRank(j - 1)
              /\ faces[j][Len(faces[j])] = SeamRank(j)
        /\ Head(faces[1]) = SeamRank(n)
        /\ faces[1][Len(faces[1])] = SeamRank(1)
        /\ u_vals[1] = 0
        /\ Adjacent(faces[1], u_vals[Len(u_vals)], u_vals[1])
        /\ \A k \in 1..(Len(u_vals) - 1) :
              \E j \in 1..n : Adjacent(faces[j], u_vals[k], u_vals[k + 1])

\* a call with three distinct seams, one of them inserted between two samples
C1_Witness ==
    /\ SeamCall
    /\ Len(seams_in) = 3
    /\ seams_in # u_seams
    /\ \E x \in Range(seams_in) : x \notin Range(Samples(u_func, u_points))
    /\ Len(faces) = 3

\* C2: for a non-empty list of distinct seams, one patch is produced per seam,
\* a sample that is not a seam value lies in exactly one sub-range (and once
\* in it), and a sample two different sub-ranges share is a seam value.
C2_NoOverlap ==
    SeamCall =>
        /\ Len(faces) = Len(seams_in)
        /\ \A x \in Range(u_vals) \ Range(seams_in) :
              /\ Cardinality({j \in 1..Len(faces) : x \in Range(faces[j])}) = 1
              /\ \A j \in 1..Len(faces) : Occurrences(faces[j], x) <= 1
        /\ \A j1, j2 \in 1..Len(faces) :
              j1 # j2 => (Range(faces[j1]) \cap Range(faces[j2])) \subseteq Range(seams_in)

\* two patches that share exactly their two seams, with other samples in each
C2_Witness ==
    /\ SeamCall
    /\ Len(faces) = 2
    /\ Range(faces[1]) \cap Range(faces[2]) = Range(seams_in)
    /\ Range(faces[1]) \ Range(seams_in) # {}
    /\ Range(faces[2]) \ Range(seams_in) # {}

\* C10: a call with an empty seam list (to _create_blade_faces or through
\* get_occ_solid) ends with ValueError, and no sample array was generated, no
\* blade point evaluated and no face built.
C10_EmptySeamsRejected ==
    (seams_in = <<>> /\ bf_pc # "call") =>
        /\ bf_pc = "raised"
        /\ bf_err = "ValueError"
        /\ ~sampled
        /\ u_vals = <<>>
        /\ evals = 0
        /\ faces = <<>>

C10_Witness ==
    /\ seams_in = <<>>
    /\ bf_entry = "get_occ_solid"
    /\ bf_pc = "raised"
    /\ bf_err = "ValueError"

\* C11: _create_blade_faces called with a method that is neither INTERP nor
\* APPROX raises ValueError at once: no sample array has been generated, no
\* blade point evaluated, no patch built, and it never returns faces.
C11_UnknownMethodRejectedFirst ==
    (bf_entry = "_create_blade_faces" /\ method \notin {INTERP, APPROX}) =>
        /\ bf_pc # "returned"
        /\ faces = <<>>
        /\ bf_pc = "raised" => (bf_err = "ValueError" /\ ~sampled /\ evals = 0)

Ascending(s) == \A k \in 1..(Len(s) - 1) : s[k] <= s[k + 1]

Permutation(s, t) ==
    Len(s) = Len(t) /\ \A x \in Range(s) \cup Range(t) : Occurrences(s, x) = Occurrences(t, x)

\* C12 as claimed: whatever calls were made, the list passed as u_seams and
\* DEFAULT_SEAMS hold the elements they held before the call, in that order.
C12_SeamsNeverMutated ==
    /\ u_seams = seams_in
    /\ DEFAULT_SEAMS = DefaultSeamsLiteral

\* C12 as amended: building blade faces sorts the list passed as u_seams in
\* place. Whatever calls were made, that list holds the elements it held
\* before the call, in ascending order once the call is past its seam check
\* (so in the same order only if it was ascending already); DEFAULT_SEAMS,
\* which is ascending, holds the same elements in the same order throughout.
C12_SeamsSortedInPlace ==
    /\ Permutation(u_seams, seams_in)
    /\ sampled => Ascending(u_seams)
    /\ (~sampled \/ Ascending(seams_in)) => u_seams = seams_in
    /\ DEFAULT_SEAMS = DefaultSeamsLiteral
    /\ seams_default => u_seams = Quarters(DEFAULT_SEAMS, u_points)

\* a caller's list of two seams, out of order, swapped by a call that
\* returned its faces
C12_Witness ==
    /\ bf_pc = "returned"
    /\ ~seams_default
    /\ Len(seams_in) = 2
    /\ seams_in[1] > seams_in[2]
    /\ u_seams = <<seams_in[2], seams_in[1]>>
    /\ Len(faces) = 2

-----------------------------------------------------------------------------
(* is_edge_at_radius, blade.py lines 325-331.  A vertex is <<x, y, z>>, an  *)
(* edge the sequence of its vertices as get_vertices_from_shape lists them. *)

\* gp_Pnt.Distance, squared
Distance2(p, q) ==
    (p[1] - q[1]) * (p[1] - q[1]) + (p[2] - q[2]) * (p[2] - q[2])
        + (p[3] - q[3]) * (p[3] - q[3])

AxisRadius2Full(v) == Distance2(v, <<0, 0, 0>>)

\* radius = gp_Pnt(0, point.Y(), point.Z()).Distance(gp_Pnt()), squared
AxisRadius2(v) == Distance2(<<0, v[2], v[3]>>, <<0, 0, 0>>)

\* abs(radius - target_radius) > BLADE_CAP_RADIUS_TOL, radius = sqrt(radius2)
OutOfTol(radius2, target_radius) ==
    LET hi == target_radius + BLADE_CAP_RADIUS_TOL
        lo == target_radius - BLADE_CAP_RADIUS_TOL
    IN \/ hi < 0
       \/ radius2 > hi * hi
       \/ (lo > 0 /\ radius2 < lo * lo)

\* the loop from vertex k on: the value returned and the vertices examined
RECURSIVE IsEdgeScan(_, _, _)
IsEdgeScan(edge, target_radius, k) ==
    IF k > Len(edge) THEN [ret |-> TRUE, seen |-> Len(edge)]
    ELSE IF OutOfTol(AxisRadius2(edge[k]), target_radius)
    THEN [ret |-> FALSE, seen |-> k]
    ELSE IsEdgeScan(edge, target_radius, k + 1)

is_edge_at_radius_first(edge, target_radius) ==
    edge = <<>> \/ ~OutOfTol(AxisRadius2(edge[1]), target_radius)

is_edge_at_radius(edge, target_radius) == IsEdgeScan(edge, target_radius, 1).ret

XVals == {0, 2}
YVals == {0, 3}
EdgeVertices == {<<x, y, z>> : x \in XVals, y \in YVals, z \in 0..MaxZ}
EdgeInputs == UNION {[1..len -> EdgeVertices] : len \in 0..MaxEdgeVertices}
TargetRadii == {0, 5}

InitEdge ==
    /\ ie_pc = "call"
    /\ ie_edge \in EdgeInputs
    /\ ie_r0 \in TargetRadii
    /\ ie_ret = FALSE /\ ie_seen = 0
    /\ bfIdle /\ rbIdle /\ genIdle /\ gsIdle /\ pfIdle

CallIsEdgeAtRadius ==
    /\ ie_pc = "call"
    /\ ie_ret' = is_edge_at_radius(ie_edge, ie_r0)
    /\ ie_seen' = IsEdgeScan(ie_edge, ie_r0, 1).seen
    /\ ie_pc' = "done"
    /\ UNCHANGED <<ie_edge, ie_r0>>

NextEdge == CallIsEdgeAtRadius /\ UNCHANGED <<bfVars, rbVars, genVars, gsVars, pfVars>>

SpecEdge == InitEdge /\ [][NextEdge]_vars

\* the distance of v from the X axis differs from r0 by at most the tolerance
WithinTol(v, r0) ==
    LET d2 == v[2] * v[2] + v[3] * v[3]
        hi == r0 + BLADE_CAP_RADIUS_TOL
        lo == r0 - BLADE_CAP_RADIUS_TOL
    IN /\ hi >= 0
       /\ d2 <= hi * hi
       /\ (lo <= 0 \/ d2 >= lo * lo)

AllWithinTol(edge, r0) == \A k \in 1..Len(edge) : WithinTol(edge[k], r0)

\* C9: is_edge_at_radius(edge, r0) is True exactly when every vertex is within
\* BLADE_CAP_RADIUS_TOL of r0 in distance from the X axis; it returns False at
\* the first vertex that is farther, without looking at the ones after it;
\* changing the X coordinates of the vertices never changes the result.
C9_EdgeAtRadius ==
    ie_pc = "done" =>
        /\ ie_ret = AllWithinTol(ie_edge, ie_r0)
        /\ ie_ret => ie_seen = Len(ie_edge)
        /\ ~ie_ret =>
              /\ ie_seen \in 1..Len(ie_edge)
              /\ ~WithinTol(ie_edge[ie_seen], ie_r0)
              /\ \A k \in 1..(ie_seen - 1) : WithinTol(ie_edge[k], ie_r0)
        /\ \A x \in XVals :
              is_edge_at_radius([k \in 1..Len(ie_edge) |->
                                    <<x, ie_edge[k][2], ie_edge[k][3]>>], ie_r0) = ie_ret

\* an edge accepted with one vertex exactly at the tolerance and X # 0
C9_Witness ==
    /\ ie_pc = "done"
    /\ ie_ret
    /\ Len(ie_edge) = 2
    /\ ie_edge[1] = <<2, 0, 6>>
    /\ ie_edge[2] = <<0, 3, 4>>
    /\ ie_r0 = 5

-----------------------------------------------------------------------------
(* Shapes.  A solid is [kind, edges]; the hub, the shroud and the blade are *)
(* what the kernel built, so their edges are data of the model.  The blade  *)
(* solid is one of a few edge sets, with edges at a cap radius, at the edge *)
(* of the tolerance, off it, across the span, closed, and without vertices. *)

HubSolid == [kind |-> "hub", edges |-> << << <<0, 0, 5>>, <<3, 0, 5>> >> >>]
ShroudSolid == [kind |-> "shroud", edges |-> << << <<0, 0, 10>>, <<3, 0, 10>> >> >>]

EdgeAtHub == << <<0, 3, 4>>, <<1, 0, 5>> >>
EdgeAtTip == << <<0, 6, 8>>, <<1, 0, 10>> >>
EdgeAcrossSpan == << <<0, 3, 4>>, <<0, 6, 8>> >>
EdgeAtTolerance == << <<0, 0, 6>>, <<1, 0, 4>> >>
EdgeOffHub == << <<0, 3, 4>>, <<1, 0, 7>> >>
EdgeClosedAtTip == << <<0, 0, 10>>, <<0, 0, 10>> >>
EdgeNoVertex == << >>

BladeCatalog ==
    { <<EdgeAtHub, EdgeAtTip, EdgeAcrossSpan>>,
      <<EdgeAtTolerance, EdgeOffHub>>,
      <<EdgeAcrossSpan>>,
      <<EdgeNoVertex, EdgeClosedAtTip>> }

\* n_blades values whose rotation step 360/n is a whole number of quarter
\* turns (the rotated copies stay on the integer lattice), and 0
NBladesChoices == {0, 1, 2, 4}

\* get_edges_from_shape
get_edges_from_shape(shape) == shape.edges

\* translate(object, vector)
translate(shape, vector) ==
    [shape EXCEPT !.edges =
        [e \in 1..Len(shape.edges) |->
            [k \in 1..Len(shape.edges[e]) |->
                <<shape.edges[e][k][1] + vector[1],
                  shape.edges[e][k][2] + vector[2],
                  shape.edges[e][k][3] + vector[3]>>]]]

\* rotation of a point about the X axis by q quarter turns
RECURSIVE RotX(_, _)
RotX(v, q) == IF q = 0 THEN v ELSE RotX(<<v[1], -v[3], v[2]>>, q - 1)

\* BRepBuilderAPI_Transform(object, trsf, True) with trsf the rotation about
\* the X axis by i * angle / n, angle = 2 pi
Rotated(shape, i, n) ==
    [shape EXCEPT !.edges =
        [e \in 1..Len(shape.edges) |->
            [k \in 1..Len(shape.edges[e]) |-> RotX(shape.edges[e][k], (4 * i) \div n)]]]

rotation_array_shifted(object, n) == [i \in 1..n |-> Rotated(object, i, n)]

\* rotation_array(object, n): array = [object], then one copy per i in range(1, n)
rotation_array(object, n) ==
    <<object>> \o [i \in 1..(IF n >= 1 THEN n - 1 ELSE 0) |-> Rotated(object, i, n)]

\* [x for s in seqs for x in s]
RECURSIVE Flatten(_)
Flatten(seqs) == IF seqs = <<>> THEN <<>> ELSE Head(seqs) \o Flatten(Tail(seqs))

-----------------------------------------------------------------------------
(* RotorBuilder, rotor.py lines 18-68.  A builder value is                  *)
(* [parts, fillet_edges]; an operation returns the builder after the call   *)
(* and the exception it raised ("none" if it returned).  What the kernel    *)
(* does is an argument: ok flags, and for the boolean union the rule that   *)
(* says which candidate edges survive.                                      *)

NewBuilder == [parts |-> <<>>, fillet_edges |-> <<>>]

Done(b) == [parts |-> b.parts, fillet_edges |-> b.fillet_edges, err |-> "none"]
Raised(b, e) == [parts |-> b.parts, fillet_edges |-> b.fillet_edges, err |-> e]

\* lines 24-27
add_hub(b, ok) ==
    IF ~ok THEN Raised(b, "AssertionError")
    ELSE Done([b EXCEPT !.parts = Append(@, HubSolid)])

\* lines 29-33
add_shroud(b, prm, ok) ==
    IF ~ok THEN Raised(b, "RuntimeError")
    ELSE Done([b EXCEPT !.parts = Append(@, translate(ShroudSolid, <<prm.blade_dx, 0, 0>>))])

CapEdges(edges, radius) == SelectSeq(edges, LAMBDA e : is_edge_at_radius(e, radius))

\* lines 35-54; ok: BladeBuilder(...).create_blade().get_occ_solid(...) returned
add_blades(b, prm, ok) ==
    IF ~ok THEN Raised(b, "ValueError")
    ELSE
        LET n_blades == prm.n_blades
            blade == translate([kind |-> "blade", edges |-> prm.blade], <<prm.blade_dx, 0, 0>>)
            blades == rotation_array(blade, n_blades)
            edges == Flatten([i \in 1..n_blades |-> get_edges_from_shape(blades[i])])
            hub_edges == CapEdges(edges, prm.hub_radius)
            shroud_edges == CapEdges(edges, prm.blade_max_radius)
        IN Done([parts |-> b.parts \o blades,
                 fillet_edges |-> b.fillet_edges \o (hub_edges \o shroud_edges)])

SurvivorRules == {"all", "odd", "split"}
\* what the kernel does during one get_occ_solid: one value per course of the
\* call (a step after a failed one is not reached, so its flag is left TRUE)
Kernel ==
    {k \in [union_ok : BOOLEAN, rule : SurvivorRules, fillet_ok : BOOLEAN, fix_ok : BOOLEAN] :
        /\ ~k.union_ok => (k.rule = "all" /\ k.fillet_ok /\ k.fix_ok)
        /\ ~k.fillet_ok => k.fix_ok}

boolean_union_unchecked(shapes, union_ok) ==
    IF ~union_ok THEN [err |-> "RuntimeError", shape |-> <<>>]
    ELSE [err |-> "none", shape |-> Flatten([k \in 1..Len(shapes) |-> shapes[k].edges])]

\* occ.py lines 210-230: the empty list is refused, shapes[0] is the object,
\* the rest are the tools; Build / Check may raise. The fused shape is carried
\* by its edges.
boolean_union(shapes, union_ok) ==
    IF shapes = <<>> THEN [err |-> "ValueError", shape |-> <<>>]
    ELSE IF ~union_ok THEN [err |-> "RuntimeError", shape |-> <<>>]
    ELSE [err |-> "none", shape |-> Flatten([k \in 1..Len(shapes) |-> shapes[k].edges])]

\* the second value of boolean_union(..., check_modified=edges): per candidate
\* edge, the edges of the result it survives as (none, itself, or two pieces):
\* all survive, every second one is lost, or each is split in two
ModifiedReport(check_modified, rule) ==
    [k \in 1..Len(check_modified) |->
        CASE rule = "all" -> <<[edge |-> check_modified[k], piece |-> 0]>>
          [] rule = "odd" -> IF k % 2 = 1
                             THEN <<[edge |-> check_modified[k], piece |-> 0]>>
                             ELSE <<>>
          [] OTHER -> <<[edge |-> check_modified[k], piece |-> 1],
                        [edge |-> check_modified[k], piece |-> 2]>>]

\* fillet_solid_edges(shape, edges, radius): the filleted shape, or
\* FilletSolidError when the kernel cannot build the fillet
fillet_solid_edges(shape, edges, radius, fillet_ok) ==
    IF fillet_ok THEN [err |-> "none", shape |-> shape]
    ELSE [err |-> "FilletSolidError", shape |-> <<>>]

get_occ_solid_candidates(b, fillet_radius, k) ==
    LET u == boolean_union(b.parts, k.union_ok)
        modified == Flatten(ModifiedReport(b.fillet_edges, k.rule))
        call == [NoCall EXCEPT !.op = "get_occ_solid", !.radius = fillet_radius]
    IN
    IF u.err # "none" THEN [call EXCEPT !.err = u.err]
    ELSE
        LET arg == [j \in 1..Len(b.fillet_edges) |-> [edge |-> b.fillet_edges[j], piece |-> 0]]
            f == IF fillet_radius > 0
                 THEN fillet_solid_edges(u.shape, arg, fillet_radius, k.fillet_ok)
                 ELSE [err |-> "none", shape |-> u.shape]
            done == [call EXCEPT !.union_done = TRUE, !.reported = modified,
                                 !.fillet_invoked = (fillet_radius > 0),
                                 !.fillet_arg = IF fillet_radius > 0 THEN arg ELSE <<>>]
        IN
        IF f.err # "none" THEN [done EXCEPT !.err = f.err]
        ELSE IF ~k.fix_ok THEN [done EXCEPT !.err = "ValueError"]
        ELSE [done EXCEPT !.solid = TRUE]

\* lines 56-68: what the call did. It reads parts and fillet_edges and
\* assigns neither.
get_occ_solid(b, fillet_radius, k) ==
    LET u == boolean_union(b.parts, k.union_ok)
        modified == Flatten(ModifiedReport(b.fillet_edges, k.rule))
        call == [NoCall EXCEPT !.op = "get_occ_solid", !.radius = fillet_radius]
    IN
    IF u.err # "none" THEN [call EXCEPT !.err = u.err]
    ELSE
        LET f == IF fillet_radius > 0
                 THEN fillet_solid_edges(u.shape, modified, fillet_radius, k.fillet_ok)
                 ELSE [err |-> "none", shape |-> u.shape]
            done == [call EXCEPT !.union_done = TRUE, !.reported = modified,
                                 !.fillet_invoked = (fillet_radius > 0),
                                 !.fillet_arg = IF fillet_radius > 0 THEN modified ELSE <<>>]
        IN
        IF f.err # "none" THEN [done EXCEPT !.err = f.err]
        ELSE IF ~k.fix_ok THEN [done EXCEPT !.err = "ValueError"]
        ELSE [done EXCEPT !.solid = TRUE]

RotorParams ==
    [n_blades : NBladesChoices, hub_radius : {5}, blade_max_radius : {10},
     blade_dx : {1}, blade : BladeCatalog]

InitRotor ==
    /\ params \in RotorParams
    /\ parts = NewBuilder.parts
    /\ fillet_edges = NewBuilder.fillet_edges
    /\ hist = <<>>
    /\ last = NoCall
    /\ bfIdle /\ genIdle /\ ieIdle /\ gsIdle /\ pfIdle

Builder == [parts |-> parts, fillet_edges |-> fillet_edges]

\* the effect of an add_* call on the variables
Added(op, r) ==
    /\ parts' = r.parts
    /\ fillet_edges' = r.fillet_edges
    /\ last' = [NoCall EXCEPT !.op = op, !.err = r.err]
    /\ hist' = IF r.err = "none" THEN Append(hist, op) ELSE hist
    /\ UNCHANGED params

AddHub ==
    /\ Len(hist) < MaxOps
    /\ \E ok \in BOOLEAN : Added("add_hub", add_hub(Builder, ok))

AddShroud ==
    /\ Len(hist) < MaxOps
    /\ \E ok \in BOOLEAN : Added("add_shroud", add_shroud(Builder, params, ok))

AddBlades ==
    /\ Len(hist) < MaxOps
    /\ \E ok \in BOOLEAN : Added("add_blades", add_blades(Builder, params, ok))

GetOccSolid ==
    /\ \E fillet_radius \in {-1, 0, 1}, k \in Kernel :
          last' = get_occ_solid(Builder, fillet_radius, k)
    /\ UNCHANGED <<params, parts, fillet_edges, hist>>

NextRotor ==
    \/ AddHub /\ UNCHANGED <<bfVars, genVars, ieVars, gsVars, pfVars>>
    \/ AddShroud /\ UNCHANGED <<bfVars, genVars, ieVars, gsVars, pfVars>>
    \/ AddBlades /\ UNCHANGED <<bfVars, genVars, ieVars, gsVars, pfVars>>
    \/ GetOccSolid /\ UNCHANGED <<bfVars, genVars, ieVars, gsVars, pfVars>>

SpecRotor == InitRotor /\ [][NextRotor]_vars

-----------------------------------------------------------------------------
(* Properties of RotorBuilder.                                             *)

Route == <<"add_hub", "add_shroud", "add_blades">>

IsPrefix(s, t) == Len(s) <= Len(t) /\ \A k \in 1..Len(s) : s[k] = t[k]

Kinds(ps) == [k \in 1..Len(ps) |-> ps[k].kind]

\* the kinds of the solids operation op is said to append, nb per add_blades
KindsFor(op, nb) ==
    CASE op = "add_hub" -> <<"hub">>
      [] op = "add_shroud" -> <<"shroud">>
      [] OTHER -> [i \in 1..nb |-> "blade"]

Assembled == last.op = "get_occ_solid" /\ last.solid

\* C3 as claimed: the builder only goes EMPTY -> add_hub -> add_shroud ->
\* add_blades -> get_occ_solid, each once and in that order (a call out of
\* order or repeated is not carried out), and a solid is only assembled at
\* the end of that route.
C3_RouteEnforced ==
    /\ IsPrefix(hist, Route)
    /\ Assembled => hist = Route

\* C3 as amended: the builder enforces no order. Whatever the builder holds,
\* each of add_hub, add_shroud and add_blades is carried out when the kernel
\* builds its solid; get_occ_solid is refused by the empty-list ValueError of
\* boolean_union exactly when the part list is empty, so a solid is only
\* assembled from a non-empty part list.
C3_NoOrderEnforced ==
    /\ add_hub(Builder, TRUE).err = "none"
    /\ add_shroud(Builder, params, TRUE).err = "none"
    /\ add_blades(Builder, params, TRUE).err = "none"
    /\ last.op = "get_occ_solid" =>
          ((last.err = "ValueError" /\ ~last.union_done) <=> parts = <<>>)
    /\ Assembled => parts # <<>>

\* a solid assembled after blades, blades again, then the hub, and no shroud
C3_Witness ==
    /\ Assembled
    /\ hist = <<"add_blades", "add_blades", "add_hub">>
    /\ params.n_blades = 2
    /\ Len(parts) = 5

\* one step of the builder appends nb solids per add_blades, one per add_hub
\* or add_shroud, keeps what the list held, and get_occ_solid changes neither list
FrameStep(nb) ==
    /\ hist' # hist =>
          /\ Len(hist') = Len(hist) + 1
          /\ SubSeq(hist', 1, Len(hist)) = hist
          /\ Len(parts') >= Len(parts)
          /\ SubSeq(parts', 1, Len(parts)) = parts
          /\ Kinds(SubSeq(parts', Len(parts) + 1, Len(parts')))
                = KindsFor(hist'[Len(hist')], nb)
    /\ hist' = hist => parts' = parts /\ fillet_edges' = fillet_edges
    /\ last'.op = "get_occ_solid" => parts' = parts /\ fillet_edges' = fillet_edges

\* C4: add_hub and add_shroud each append exactly one solid, add_blades
\* appends exactly n_blades solids, parts are kept in call order, and
\* get_occ_solid leaves parts and fillet_edges unchanged.
C4_Frame == [][FrameStep(params.n_blades)]_vars

\* C7: get_occ_solid invokes the fillet step exactly when the union was made
\* and fillet_radius > 0, and then on exactly the edges the union reported as
\* surviving from fillet_edges; with fillet_radius <= 0 it is not invoked.
C7_FilletOnSurvivors ==
    last.op = "get_occ_solid" =>
        /\ last.fillet_invoked <=> (last.radius > 0 /\ last.union_done)
        /\ last.fillet_invoked => last.fillet_arg = last.reported
        /\ last.radius <= 0 => (~last.fillet_invoked /\ last.fillet_arg = <<>>)

\* a fillet applied to survivors that are not the candidate list itself
C7_Witness ==
    /\ Assembled
    /\ last.fillet_invoked
    /\ last.fillet_arg # <<>>
    /\ Len(last.fillet_arg) # Len(fillet_edges)

\* C8: every edge of fillet_edges has all its vertices within the tolerance of
\* the hub radius or all within the tolerance of the blade maximum radius; no
\* edge with a vertex outside the tolerance of both radii is in the list.
C8_CandidatesAtCapRadius ==
    \A k \in 1..Len(fillet_edges) :
        /\ \/ AllWithinTol(fillet_edges[k], params.hub_radius)
           \/ AllWithinTol(fillet_edges[k], params.blade_max_radius)
        /\ \A j \in 1..Len(fillet_edges[k]) :
              \/ WithinTol(fillet_edges[k][j], params.hub_radius)
              \/ WithinTol(fillet_edges[k][j], params.blade_max_radius)

\* four copies of a blade with one edge at the tolerance (kept) and one off
\* the hub radius (left out), added twice
C8_Witness ==
    /\ params.blade = <<EdgeAtTolerance, EdgeOffHub>>
    /\ params.n_blades = 4
    /\ hist = <<"add_blades", "add_blades">>
    /\ Len(fillet_edges) = 8

-----------------------------------------------------------------------------
(* generate_rotor of examples/ex_random_rotor.py: the fillet backoff loop.  *)
(* fact is held in fixed point: One stands for 1.0, and fact *= 0.9 is the  *)
(* truncated product; the powers 0.9^15 = 0.2059 and 0.9^16 = 0.1853 lie    *)
(* far enough from 0.2 for the truncation (and the float rounding of the    *)
(* source) not to move the comparison fact < 0.2.                           *)

\* line 54: fact = 1.0
One == 1000000

\* line 68: the literal 0.2
FactFloor == One \div 5

\* line 67: fact *= 0.9
Decay(f) == (f * 9) \div 10

BackoffNoFloor(f) == Decay(f)

\* lines 67-69, the body of the except clause
Backoff(f) == IF Decay(f) < FactFloor THEN 0 ELSE Decay(f)

RetryableAny(err) == err # "none"

\* line 66: except FilletSolidError
Retryable(err) == err = "FilletSolidError"

\* params["thickness"]: any number the caller passes
Thicknesses == {-1, 0, 1, 2}

\* lines 36-53: n_blades = 4, the radii and the blade in the model's units
GenRotorParams ==
    [n_blades |-> 4, hub_radius |-> 5, blade_max_radius |-> 10, blade_dx |-> 1,
     blade |-> <<EdgeAtHub, EdgeAtTip, EdgeAcrossSpan>>]

\* lines 57-63: RotorBuilder(rotor_params).add_hub().add_shroud()
\* .add_blades(151, 10).get_occ_solid(fillet_radius); the first call that
\* raises ends the chain
BuildChain(fillet_radius, hub_ok, shroud_ok, blades_ok, k) ==
    LET b1 == add_hub(NewBuilder, hub_ok)
        b2 == add_shroud(b1, GenRotorParams, shroud_ok)
        b3 == add_blades(b2, GenRotorParams, blades_ok)
    IN
    IF b1.err # "none" THEN [NoCall EXCEPT !.op = "add_hub", !.err = b1.err]
    ELSE IF b2.err # "none" THEN [NoCall EXCEPT !.op = "add_shroud", !.err = b2.err]
    ELSE IF b3.err # "none" THEN [NoCall EXCEPT !.op = "add_blades", !.err = b3.err]
    ELSE get_occ_solid(b3, fillet_radius, k)

InitGen ==
    /\ gen_pc = "call"
    /\ thickness \in Thicknesses
    /\ fact = 0 /\ attempts = 0 /\ fillet_fails = 0
    /\ gen_log = <<>> /\ gen_err = "none"
    /\ bfIdle /\ rbIdle /\ ieIdle /\ gsIdle /\ pfIdle

\* lines 32-54
EnterGenerateRotor ==
    /\ gen_pc = "call"
    /\ fact' = One
    /\ gen_pc' = "try"
    /\ UNCHANGED <<thickness, attempts, fillet_fails, gen_log, gen_err>>

\* lines 55-69: one pass of the while loop
BuildAttempt ==
    /\ gen_pc = "try"
    /\ \E hub_ok, shroud_ok, blades_ok \in BOOLEAN, k \in Kernel :
          LET r == BuildChain(fact * thickness, hub_ok, shroud_ok, blades_ok, k) IN
          /\ attempts' = attempts + 1
          /\ gen_log' = Append(gen_log, [fact |-> fact, op |-> r.op,
                                         fillet_invoked |-> r.fillet_invoked,
                                         err |-> r.err])
          /\ IF r.err = "none"
             THEN /\ gen_pc' = "returned"
                  /\ UNCHANGED <<fact, fillet_fails, gen_err>>
             ELSE IF Retryable(r.err)
             THEN /\ fact' = Backoff(fact)
                  /\ fillet_fails' = fillet_fails + 1
                  /\ UNCHANGED <<gen_pc, gen_err>>
             ELSE /\ gen_pc' = "raised"
                  /\ gen_err' = r.err
                  /\ UNCHANGED <<fact, fillet_fails>>
    /\ UNCHANGED thickness

NextGen ==
    \/ EnterGenerateRotor /\ UNCHANGED <<bfVars, rbVars, ieVars, gsVars, pfVars>>
    \/ BuildAttempt /\ UNCHANGED <<bfVars, rbVars, ieVars, gsVars, pfVars>>

SpecGen == InitGen /\ [][NextGen]_vars

\* generate_rotor is one sequential loop: a pass that can run does run
SpecGenFair == SpecGen /\ WF_vars(NextGen)

-----------------------------------------------------------------------------
(* Properties of the backoff loop.                                         *)

Ended == gen_pc \in {"returned", "raised"}

\* the factor of the j-th attempt when every earlier one failed in the fillet
\* step and no floor applies: 1, 0.9, 0.9^2, ...
RECURSIVE Geometric(_)
Geometric(j) == IF j = 1 THEN One ELSE Decay(Geometric(j - 1))

BackoffBounded ==
    /\ attempts <= 17
    /\ fillet_fails <= 16
    /\ \A j \in 1..Len(gen_log) :
          /\ j <= 16 => (gen_log[j].fact = Geometric(j) /\ Geometric(j) >= FactFloor)
          /\ j = 17 => (Geometric(j) < FactFloor /\ gen_log[j].fact = 0)
          /\ gen_log[j].fact = 0 =>
                (~gen_log[j].fillet_invoked /\ gen_log[j].err # "FilletSolidError")
          /\ gen_log[j].err = "FilletSolidError" =>
                (gen_log[j].fillet_invoked /\ gen_log[j].fact * thickness > 0)
    /\ gen_err # "FilletSolidError"
    /\ gen_pc = "returned" => gen_log[Len(gen_log)].err = "none"
    /\ (Ended /\ gen_log[Len(gen_log)].err = "none") => gen_pc = "returned"

\* C5: with FilletSolidError raised only by the fillet step, the loop ends.
\* The factor goes 1, 0.9, 0.9^2, ... while it is at least 0.2 (16 attempts)
\* and is 0 on the 17th; an attempt at factor 0 invokes no fillet and cannot
\* fail with FilletSolidError, so it returns the solid the other steps build;
\* there are never more than 17 attempts and FilletSolidError never leaves
\* generate_rotor.
C5_BackoffTerminates == []BackoffBounded /\ <>Ended

\* sixteen fillet failures, then the solid returned at factor 0
C5_Witness ==
    /\ gen_pc = "returned"
    /\ attempts = 17
    /\ fillet_fails = 16
    /\ fact = 0
    /\ thickness > 0
    /\ ~gen_log[17].fillet_invoked

\* C6: only FilletSolidError is retried. An attempt that fails with any other
\* error is the last attempt: generate_rotor has raised that error, the
\* factor is the one the attempt ran with, and no attempt follows; an
\* attempt that failed with FilletSolidError is followed by another one.
C6_OnlyFilletRetried ==
    \A j \in 1..Len(gen_log) :
        /\ gen_log[j].err \notin {"none", "FilletSolidError"} =>
              /\ j = Len(gen_log)
              /\ attempts = j
              /\ gen_pc = "raised"
              /\ gen_err = gen_log[j].err
              /\ fact = gen_log[j].fact
        /\ gen_log[j].err = "FilletSolidError" =>
              /\ gen_err # "FilletSolidError"
              /\ j < Len(gen_log) \/ gen_pc = "try"
              /\ j < Len(gen_log) => gen_log[j + 1].fact = Backoff(gen_log[j].fact)

\* two fillet failures, then a construction failure on the third attempt
C6_Witness ==
    /\ gen_pc = "raised"
    /\ attempts = 3
    /\ fillet_fails = 2
    /\ gen_err = "RuntimeError"
    /\ gen_log[3].op = "add_shroud"
    /\ fact = Geometric(3)

-----------------------------------------------------------------------------
(* BladeBuilder.get_occ_solid, blade.py lines 89-113: the patch faces of    *)
(* _create_blade_faces, a cap at max_radius, a cap at min_radius, and the   *)
(* sewing of occ.py lines 82-107.  The edges of a patch face are what the   *)
(* kernel gave it, so they are data: every patch is one of PatchCatalog.    *)

\* self.__params.min_radius / max_radius, in the model's units
BladeRadii == [min_radius |-> 5, max_radius |-> 10]

\* a patch with an edge at each cap radius; one without an edge at
\* max_radius; one without an edge at min_radius; one with neither
PatchCatalog ==
    { <<EdgeAtHub, EdgeAtTip, EdgeAcrossSpan>>,
      <<EdgeAtTolerance, EdgeAcrossSpan>>,
      <<EdgeAtTip, EdgeOffHub>>,
      <<EdgeAcrossSpan>> }

\* blade_faces, the list _create_blade_faces returned
BladeFaces ==
    [i \in 1..Len(faces) |-> [kind |-> "patch", edges |-> patch_edges[i], u |-> faces[i]]]

\* occ.py line 88: range(20)
SewAttempts == 20

\* the attempts (0-based) whose sewing would give a shell: from a tolerance
\* on, at one tolerance only, at some tolerances
SewOutcomes ==
    {k..(SewAttempts - 1) : k \in 0..SewAttempts} \cup {{k} : k \in 0..(SewAttempts - 1)}
    \cup {{3, 7}, {0, 19}, {5, 6, 18}}

RECURSIVE SewLoopNoBreak(_, _, _, _)
SewLoopNoBreak(k, tol, used, shells) ==
    IF k = SewAttempts
    THEN IF shells = {}
         THEN [contin |-> TRUE, tries |-> k, tols |-> used, sewn |-> [attempt |-> -1, tol |-> 0]]
         ELSE LET kept == CHOOSE j \in shells : \A i \in shells : i <= j IN
              [contin |-> FALSE, tries |-> k, tols |-> used,
               sewn |-> [attempt |-> kept, tol |-> used[kept + 1]]]
    ELSE SewLoopNoBreak(k + 1, IF k \in shells THEN tol ELSE tol * 2, Append(used, tol), shells)

\* occ.py lines 85-99: the attempts from the k-th on (0-based), tol in units
\* of 1e-6; used: the tolerances of the attempts made; sewn: the attempt
\* whose sewing is kept
RECURSIVE SewLoop(_, _, _, _)
SewLoop(k, tol, used, shells) ==
    IF k = SewAttempts
    THEN [contin |-> TRUE, tries |-> k, tols |-> used, sewn |-> [attempt |-> -1, tol |-> 0]]
    ELSE IF k \in shells
    THEN [contin |-> FALSE, tries |-> k + 1, tols |-> Append(used, tol),
          sewn |-> [attempt |-> k, tol |-> tol]]
    ELSE SewLoop(k + 1, tol * 2, Append(used, tol), shells)

\* occ.py lines 82-107
solid_from_faces(fs, shells) ==
    LET l == SewLoop(0, 1, <<>>, shells) IN
    IF l.contin
    THEN [err |-> [type |-> "ValueError", at |-> "solid_from_faces", why |-> "not_sewn"],
          shape |-> NoShape, tries |-> l.tries, tols |-> l.tols, sewn |-> l.sewn]
    ELSE [err |-> NoError,
          shape |-> [kind |-> "solid", faces |-> fs],
          tries |-> l.tries, tols |-> l.tols, sewn |-> l.sewn]

create_cylinder_cap_unchecked(blade_faces, target_radius, at, wire_ok, face_done) ==
    LET edges == Flatten([k \in 1..Len(blade_faces) |-> get_edges_from_shape(blade_faces[k])])
        cap_edges == CapEdges(edges, target_radius)
    IN
    IF ~wire_ok
    THEN [err |-> [type |-> "RuntimeError", at |-> at, why |-> "wire"], face |-> NoShape]
    ELSE IF ~face_done
    THEN [err |-> [type |-> "ValueError", at |-> at, why |-> "not_done"], face |-> NoShape]
    ELSE [err |-> NoError,
          face |-> [kind |-> "cap", radius |-> target_radius, edges |-> cap_edges]]

\* BladeBuilder._create_cylinder_cap, blade.py lines 240-271; at names the
\* call for the record of the exception; wire_ok: wire_builder.Check() passed;
\* face_done: face_maker.IsDone()
create_cylinder_cap(blade_faces, target_radius, at, wire_ok, face_done) ==
    LET edges == Flatten([k \in 1..Len(blade_faces) |-> get_edges_from_shape(blade_faces[k])])
        cap_edges == CapEdges(edges, target_radius)
    IN
    IF cap_edges = <<>>
    THEN [err |-> [type |-> "ValueError", at |-> at, why |-> "no_edges"], face |-> NoShape]
    ELSE IF ~wire_ok
    THEN [err |-> [type |-> "RuntimeError", at |-> at, why |-> "wire"], face |-> NoShape]
    ELSE IF ~face_done
    THEN [err |-> [type |-> "ValueError", at |-> at, why |-> "not_done"], face |-> NoShape]
    ELSE [err |-> NoError,
          face |-> [kind |-> "cap", radius |-> target_radius, edges |-> cap_edges]]

\* get_occ_solid is called: the arguments of a short call, and the edges the
\* kernel will give each patch face
InitBlade ==
    /\ bf_pc = "call"
    /\ bf_entry = "get_occ_solid"
    /\ DEFAULT_SEAMS = DefaultSeamsLiteral
    /\ \E a \in RecallArgs :
          /\ a.entry = bf_entry
          /\ u_points = a.u_points /\ v_points = a.v_points
          /\ u_func = a.u_func /\ method = a.method
          /\ seams_default = a.by_default
          /\ u_seams \in SeamArgs(a, MaxRecallSeams)
    /\ seams_in = u_seams
    /\ u_vals = <<>> /\ sampled = FALSE /\ bf_i = 0 /\ faces = <<>> /\ evals = 0
    /\ bf_err = "none"
    /\ gs_pc = "faces"
    /\ patch_edges \in [1..MaxRecallSeams -> PatchCatalog]
    /\ top_cap = NoShape /\ bottom_cap = NoShape /\ blade_solid = NoShape
    /\ gs_err = NoError
    /\ rbIdle /\ genIdle /\ ieIdle /\ pfIdle

\* line 111
CreateTopCap ==
    /\ bf_pc = "returned" /\ gs_pc = "faces"
    /\ \E wire_ok, face_done \in BOOLEAN :
          LET r == create_cylinder_cap(BladeFaces, BladeRadii.max_radius, "top_cap",
                                       wire_ok, face_done) IN
          /\ top_cap' = r.face
          /\ gs_err' = r.err
          /\ gs_pc' = IF r.err = NoError THEN "top" ELSE "raised"
    /\ UNCHANGED <<patch_edges, bottom_cap, blade_solid>>

\* line 112
CreateBottomCap ==
    /\ gs_pc = "top"
    /\ \E wire_ok, face_done \in BOOLEAN :
          LET r == create_cylinder_cap(BladeFaces, BladeRadii.min_radius, "bottom_cap",
                                       wire_ok, face_done) IN
          /\ bottom_cap' = r.face
          /\ gs_err' = r.err
          /\ gs_pc' = IF r.err = NoError THEN "bottom" ELSE "raised"
    /\ UNCHANGED <<patch_edges, top_cap, blade_solid>>

\* line 113
SolidFromFaces ==
    /\ gs_pc = "bottom"
    /\ \E shells \in SewOutcomes :
          LET r == solid_from_faces(BladeFaces \o <<top_cap, bottom_cap>>, shells) IN
          /\ blade_solid' = r.shape
          /\ gs_err' = r.err
          /\ gs_pc' = IF r.err = NoError THEN "returned" ELSE "raised"
    /\ UNCHANGED <<patch_edges, top_cap, bottom_cap>>

NextBlade ==
    \/ EnterCreateBladeFaces /\ UNCHANGED <<rbVars, genVars, ieVars, gsVars, pfVars>>
    \/ BuildPatch /\ UNCHANGED <<rbVars, genVars, ieVars, gsVars, pfVars>>
    \/ CreateTopCap /\ UNCHANGED <<bfVars, rbVars, genVars, ieVars, pfVars>>
    \/ CreateBottomCap /\ UNCHANGED <<bfVars, rbVars, genVars, ieVars, pfVars>>
    \/ SolidFromFaces /\ UNCHANGED <<bfVars, rbVars, genVars, ieVars, pfVars>>

SpecBlade == InitBlade /\ [][NextBlade]_vars

\* no edge of a patch face built has all its vertices at radius r
NoPatchEdgeAt(r) ==
    \A i \in 1..Len(faces) : \A k \in 1..Len(patch_edges[i]) :
        ~AllWithinTol(patch_edges[i][k], r)

IsCapAt(f, r) == f.kind = "cap" /\ f.radius = r /\ f.edges # <<>>

\* C13: get_occ_solid never returns a solid that lacks a cap. Once the cap at
\* max_radius (then the one at min_radius) has been attempted with no patch
\* edge at that radius, or with the face maker not done, ValueError was raised
\* there and no solid exists; a solid exists only when get_occ_solid returned,
\* and is then sewn from the len(u_seams) patch faces, the top cap and the
\* bottom cap, in that order.
C13_NoSolidWithoutCaps ==
    /\ (bf_pc = "returned" /\ gs_pc # "faces" /\ NoPatchEdgeAt(BladeRadii.max_radius)) =>
          (gs_pc = "raised" /\ gs_err.type = "ValueError" /\ gs_err.at = "top_cap")
    /\ (gs_pc \in {"bottom", "returned"} \/ (gs_pc = "raised" /\ gs_err.at # "top_cap")) =>
          /\ IsCapAt(top_cap, BladeRadii.max_radius)
          /\ NoPatchEdgeAt(BladeRadii.min_radius) =>
                (gs_pc = "raised" /\ gs_err.type = "ValueError" /\ gs_err.at = "bottom_cap")
    /\ (gs_pc = "raised" /\ gs_err.why = "not_done") => gs_err.type = "ValueError"
    /\ gs_pc # "returned" => blade_solid = NoShape
    /\ gs_pc = "returned" =>
          /\ blade_solid.kind = "solid"
          /\ blade_solid.faces = BladeFaces \o <<top_cap, bottom_cap>>
          /\ Len(blade_solid.faces) = Len(u_seams) + 2
          /\ IsCapAt(top_cap, BladeRadii.max_radius)
          /\ IsCapAt(bottom_cap, BladeRadii.min_radius)

\* two patches, the top cap made, and no patch edge at min_radius: ValueError
\* from the bottom cap
C13_Witness ==
    /\ gs_pc = "raised"
    /\ gs_err = [type |-> "ValueError", at |-> "bottom_cap", why |-> "no_edges"]
    /\ Len(faces) = 2
    /\ IsCapAt(top_cap, BladeRadii.max_radius)
    /\ blade_solid = NoShape

-----------------------------------------------------------------------------
(* Functions of profile.py, geom.py, occ.py and blade.py, called once on    *)
(* arguments drawn from bounded sets.  Numbers are exact rationals held as  *)
(* integer numerators over the denominators named here; a square root or a  *)
(* sine is never evaluated: a result that has one is held by its parts.     *)

\* the call raised: what, and where
Raise(type, at) == [err |-> type, at |-> at]

\* ---- flat_ellipse(t, w, c, top), profile.py lines 132-160 -----------------
\* t = tn / TDen, w = wn / WDen, c = cn.  With D = TDen * WDen, the numerators
\* over D are X (of x = t*c), A (of a = 2*w*c) and C (of c); b = a/2.

TDen == 4
WDen == 8

XNum(tn, cn) == tn * cn * WDen
ANum(wn, cn) == 2 * wn * cn * TDen
CNum(cn) == cn * TDen * WDen

\* b * sqrt(1 - d**2 / a**2), d = off / D: ZeroDivisionError when a = 0,
\* ValueError (math domain) when the radicand is negative; otherwise y is
\* (A / 2D) * sqrt(rad / A^2)
ArcY(A, off) ==
    IF A = 0 THEN Raise("ZeroDivisionError", "y")
    ELSE IF A * A - off * off < 0 THEN Raise("ValueError", "y")
    ELSE [err |-> "none", half_num |-> A, rad |-> A * A - off * off]

\* lines 146-160
flat_ellipse_body(t, w, c, top) ==
    LET X == XNum(t, c)
        A == ANum(w, c)
        y == IF X < A THEN ArcY(A, X - A)
             ELSE IF X < CNum(c) - A THEN [err |-> "none", half_num |-> A, rad |-> A * A]
             ELSE ArcY(A, X - CNum(c) + A)
    IN
    IF y.err # "none" THEN [err |-> y.err, at |-> "line 151-155", computed |-> TRUE]
    ELSE [err |-> "none", computed |-> TRUE, x |-> X,
          y |-> [sign |-> IF top THEN 1 ELSE -1, half_num |-> y.half_num, rad |-> y.rad]]

flat_ellipse_weak(t, w, c, top) ==
    IF ~(c * WDen >= 4 * w)
    THEN [err |-> "AssertionError", at |-> "line 144", computed |-> FALSE]
    ELSE IF ~(t >= 0 /\ t <= TDen)
    THEN [err |-> "AssertionError", at |-> "line 145", computed |-> FALSE]
    ELSE flat_ellipse_body(t, w, c, top)

\* lines 144-145, then the body
flat_ellipse(t, w, c, top) ==
    IF ~(c * WDen > 4 * w)
    THEN [err |-> "AssertionError", at |-> "line 144", computed |-> FALSE]
    ELSE IF ~(t >= 0 /\ t <= TDen)
    THEN [err |-> "AssertionError", at |-> "line 145", computed |-> FALSE]
    ELSE flat_ellipse_body(t, w, c, top)

\* t in [-1/TDen, 1 + 1/TDen], w in [-1/WDen, 1], c from 0 to MaxChord
MaxChord == 3
FlatEllipseInputs ==
    [fn : {"flat_ellipse"}, t : -1..(TDen + 1), w : -1..WDen, c : 0..MaxChord,
     top : BOOLEAN]

\* ---- naca(t, w, c, top, close_trail), profile.py lines 163-176 ------------
\* t = s * (k / RootDen)^2 with s = 1 or -1, so that sqrt(t) = k / RootDen;
\* w = wn / WDen, c = cn.  y is held by its numerator over
\* WDen * 10^4 * RootDen^8.

RootDen == 2

RECURSIVE Pow(_, _)
Pow(b, e) == IF e = 0 THEN 1 ELSE b * Pow(b, e - 1)

\* lines 166-168: 0.1015, or 0.1036 with close_trail, in 1e-4
Param4Classic(close_trail) == 1015

Param4(close_trail) == IF close_trail THEN 1036 ELSE 1015

\* 0.2969*sqrt(t) - 0.1260*t - 0.3516*t**2 + 0.2843*t**3 - param4*t**4
NacaPoly(k, close_trail) ==
    2969 * k * Pow(RootDen, 7) - 1260 * Pow(k, 2) * Pow(RootDen, 6)
    - 3516 * Pow(k, 4) * Pow(RootDen, 4) + 2843 * Pow(k, 6) * Pow(RootDen, 2)
    - Param4(close_trail) * Pow(k, 8)

naca_same_side(t, w, c, top, close_trail) ==
    IF t.s < 0 /\ t.k # 0 THEN [err |-> "ValueError", at |-> "line 171"]
    ELSE [err |-> "none", x |-> t.s * t.k * t.k * c,
          y |-> 5 * w * c * NacaPoly(t.k, close_trail)]

\* x over RootDen^2
naca(t, w, c, top, close_trail) ==
    IF t.s < 0 /\ t.k # 0 THEN [err |-> "ValueError", at |-> "line 171"]
    ELSE LET x == t.s * t.k * t.k * c
             y == 5 * w * c * NacaPoly(t.k, close_trail)
         IN [err |-> "none", x |-> x, y |-> IF ~top THEN y * (-1) ELSE y]

NacaInputs ==
    [fn : {"naca"}, t : [s : {1, -1}, k : 0..RootDen], w : -1..3, c : 0..MaxChord,
     close_trail : BOOLEAN]

\* ---- find_m_alpha(lea, tea, p), blade.py lines 333-348 --------------------
\* Angles are integers in units of 1e-8 rad, the default atol of np.isclose.

\* line 338: the third positional argument of np.isclose is rtol = 1e-4
RtolInverse == 10000

Abs(x) == IF x < 0 THEN -x ELSE x

isclose_abs(a, b) == Abs(a - b) <= RtolInverse

\* np.isclose(a, b, rtol): |a - b| <= atol + rtol * |b|, atol = 1e-8
isclose(a, b) == RtolInverse * Abs(a - b) <= RtolInverse + Abs(b)

\* sol: what fsolve returns (line 347), any pair
find_m_alpha(lea, tea, p, sol) ==
    IF isclose(lea, tea) THEN [m |-> 0, alpha |-> lea, solved |-> FALSE]
    ELSE [m |-> sol.m, alpha |-> sol.chord_angle, solved |-> TRUE]

\* trailing-edge angles from -2 rad to 2 rad, and leading-edge angles around
\* them at distances on both sides of 1e-4 and of the tolerance of isclose
FindMAlphaInputs ==
    LET gaps == {0, 1, 2, 1000, 1001, 1002, 5000, 10000, 10001, 10002, 20000, 20001, 20002}
    IN [fn : {"find_m_alpha"},
        tea : {-200000000, -10000000, 0, 10000000, 100000000, 200000000},
        gap : gaps \cup {-g : g \in gaps}, p : 1..3]

\* ---- BladeBuilder.blade_func(u, v), blade.py lines 54-87 ------------------
\* u = un / UDen and v = vn / VDen; a Python value is [t, v]: its type and
\* its value.

UDen == 4
VDen == 2

PyInt(n) == [t |-> "int", v |-> n]
PyStr(x) == [t |-> "str", v |-> x]

\* a == b of Python for ints and strs
PyEq(a, b) == IF a.t # b.t THEN FALSE ELSE a.v = b.v

\* glob_params.py lines 15-16
FLAT == 0
NACA == 1

\* profile.py lines 13-17: the function bound to profile_func; with neither
\* branch taken the name is never bound
create_profile(profile_type) ==
    IF PyEq(profile_type, PyStr("naca")) THEN "naca"
    ELSE IF PyEq(profile_type, PyStr("flat")) THEN "flat_ellipse"
    ELSE "unbound"

\* profile.py lines 19-20: a call of one of the lambdas; an unbound
\* profile_func is a NameError at the call
ProfileCall(law) == IF law = "unbound" THEN "NameError" ELSE "none"

\* blade.py lines 60-61
get_radius(bp, v) == bp.min_radius * VDen + v * (bp.max_radius - bp.min_radius)

\* ---- the profile pipeline, profile.py lines 11-79 ------------------------
\* A parameter value is [key, radius, bound]: its name, twice the numerator
\* over VDen of the radius it was derived at, and where it was bound: at
\* "create" (a lambda's default, from get_profile_kwargs(0.5)) or at "call"
\* (a keyword of the call, from get_profile_kwargs(v)).

\* the keys of the dict of blade.py lines 305-313
ProfileKeys ==
    {"chord_length", "half_width", "max_camber", "camber_position", "profile_angle",
     "mov_vec", "radius"}

\* a pure cache: the value computed for the arguments
memoize(value) == value

\* blade.py lines 299-314, at radius r2 / (2 * VDen)
profile_kwargs(r2, site) ==
    memoize([k \in ProfileKeys |-> [key |-> k, radius |-> r2, bound |-> site]])

\* the lambdas of lines 19-20: no **kwargs
ProfileLambda(law) ==
    [fn |-> law, params |-> {"half_width", "chord_length"}, var_kw |-> FALSE,
     forwards |-> {}]

bend_profile_unforwarded ==
    [fn |-> "naca_bend", params |-> {"max_camber", "camber_position", "chord_length"},
     var_kw |-> TRUE, forwards |-> {}]

\* lines 24-36: func0(t, chord_length=chord_length, **kwargs)
bend_profile ==
    [fn |-> "naca_bend", params |-> {"max_camber", "camber_position", "chord_length"},
     var_kw |-> TRUE, forwards |-> {"chord_length"}]

\* lines 38-46
rotate_profile ==
    [fn |-> "rotate_2D_pt", params |-> {"profile_angle"}, var_kw |-> TRUE, forwards |-> {}]

\* lines 48-55
move_profile ==
    [fn |-> "add_mov_vec", params |-> {"mov_vec"}, var_kw |-> TRUE, forwards |-> {}]

\* lines 71-79
wrap_on_X_axis_cylinder ==
    [fn |-> "wrap_point_on_X_axis_cylinder", params |-> {"radius"}, var_kw |-> TRUE,
     forwards |-> {}]

ProfileChainBendLast ==
    <<rotate_profile, move_profile, wrap_on_X_axis_cylinder, bend_profile>>

\* blade.py lines 68-70: the stages added after create_profile()
ProfileChain ==
    <<bend_profile, rotate_profile, move_profile, wrap_on_X_axis_cylinder>>

\* a call f(t, **kw) of a lambda: its named parameters take the keyword of
\* the call or else the default, the other keywords go to **kwargs
Bind(st, kw, defaults) ==
    [q \in st.params |-> IF q \in DOMAIN kw THEN kw[q] ELSE defaults[q]]

\* the keywords of the inner call func0(t, ..., **kwargs)
Forwarded(st, kw, defaults) ==
    [q \in ((DOMAIN kw) \ st.params) \cup st.forwards |->
        IF q \in st.forwards THEN Bind(st, kw, defaults)[q] ELSE kw[q]]

\* the call of the function left by the first k stages of chain: the inner
\* function is called first and the stage applied to what it returns
RECURSIVE EvalProfile(_, _, _, _, _, _)
EvalProfile(law, chain, k, arg, kw, defaults) ==
    LET st == IF k = 0 THEN ProfileLambda(law) ELSE chain[k] IN
    IF ~st.var_kw /\ (DOMAIN kw) \ st.params # {}
    THEN [err |-> "TypeError", point |-> <<>>]
    ELSE IF k = 0
    THEN IF ProfileCall(law) # "none"
         THEN [err |-> ProfileCall(law), point |-> <<>>]
         ELSE [err |-> "none",
               point |-> [f |-> law, args |-> Bind(st, kw, defaults), of |-> arg]]
    ELSE LET inner == EvalProfile(law, chain, k - 1, arg, Forwarded(st, kw, defaults),
                                  defaults)
         IN IF inner.err # "none" THEN inner
            ELSE [err |-> "none",
                  point |-> [f |-> st.fn, args |-> Bind(st, kw, defaults),
                             of |-> inner.point]]

blade_func_le(bp, u, v) ==
    LET side == IF 2 * u <= UDen THEN 0 ELSE 1
        t == IF side = 0 THEN 2 * u ELSE 2 * (UDen - u)
        law == create_profile(bp.profile_type)
        ev == EvalProfile(law, ProfileChain, Len(ProfileChain), [t |-> t, top |-> side = 0],
                          profile_kwargs(2 * get_radius(bp, v), "call"),
                          profile_kwargs(get_radius(bp, 0) + get_radius(bp, VDen), "create"))
    IN [side |-> side, t |-> t, radius |-> get_radius(bp, v), law |-> law,
        err |-> ev.err, point |-> ev.point]

\* blade.py line 87 on the functions of lines 74-77: the side called, its
\* local parameter over UDen, the radius over VDen of get_profile_kwargs(v),
\* the thickness law, what the call raised and the point it returned as the
\* term of the stages applied. The keywords of the call are
\* get_profile_kwargs(v) (lines 75-76), the defaults of the lambdas are
\* get_profile_kwargs(0.5) (lines 66 and 69), at twice the radius
blade_func(bp, u, v) ==
    LET side == IF 2 * u < UDen THEN 0 ELSE 1
        t == IF side = 0 THEN 2 * u ELSE 2 * (UDen - u)
        law == create_profile(bp.profile_type)
        ev == EvalProfile(law, ProfileChain, Len(ProfileChain), [t |-> t, top |-> side = 0],
                          profile_kwargs(2 * get_radius(bp, v), "call"),
                          profile_kwargs(get_radius(bp, 0) + get_radius(bp, VDen), "create"))
    IN [side |-> side, t |-> t, radius |-> get_radius(bp, v), law |-> law,
        err |-> ev.err, point |-> ev.point]

BladeFuncInputs ==
    [fn : {"blade_func"},
     bp : [profile_type : {PyInt(FLAT), PyInt(NACA), PyInt(2), PyStr("flat"), PyStr("naca"),
                           PyStr("other")},
           min_radius : {1, 5}, max_radius : {5, 10}],
     u : 0..UDen, v : 0..VDen]

\* ---- wrap_point_on_X_axis_cylinder, wrap_point_on_cylinder, geom.py -------
\* theta = num / radius; the sine and the cosine are not evaluated

\* lines 17-21
wrap_point_on_X_axis_cylinder(point, radius) ==
    IF ~(radius # 0) THEN [err |-> "AssertionError", at |-> "line 19"]
    ELSE [err |-> "none", x |-> point[1], theta_num |-> point[2], radius |-> radius]

\* lines 6-14 for an axis along a coordinate direction, or null
normalize_2D_vector(x, y) ==
    LET magn == Abs(x) + Abs(y) IN
    IF magn # 0 THEN [vec |-> <<x \div magn, y \div magn>>, magn |-> magn]
    ELSE [vec |-> <<0, 0>>, magn |-> 0]

\* lines 24-43; dist is held by its square
wrap_point_on_cylinder(point, axis, radius, origin) ==
    IF ~(radius # 0) THEN [err |-> "AssertionError", at |-> "line 26"]
    ELSE LET ax == normalize_2D_vector(axis[1], axis[2]).vec
             pt == <<point[1] - origin[1], point[2] - origin[2]>>
             dot == pt[1] * ax[1] + pt[2] * ax[2]
             proj_point == <<dot * ax[1], dot * ax[2]>>
             dist_vec == <<pt[1] - proj_point[1], pt[2] - proj_point[2]>>
         IN [err |-> "none", proj_point |-> proj_point, dist_vec |-> dist_vec,
             dist2 |-> dist_vec[1] * dist_vec[1] + dist_vec[2] * dist_vec[2],
             origin |-> origin, radius |-> radius]

MaxCoord == 2
WrapXInputs ==
    [fn : {"wrap_point_on_X_axis_cylinder"},
     point : {<<x, y>> : x \in -1..MaxCoord, y \in -1..MaxCoord}, radius : -2..2]
WrapInputs ==
    [fn : {"wrap_point_on_cylinder"},
     point : {<<x, y>> : x \in -1..MaxCoord, y \in -1..MaxCoord},
     axis : {<<1, 0>>, <<0, 1>>, <<0, 2>>, <<0, 0>>},
     radius : -2..2, origin : {<<0, 0>>, <<1, 1>>}]

\* ---- rotation_array(object, n), occ.py lines 197-207 ----------------------
RotationArrayInputs ==
    [fn : {"rotation_array"},
     object : {[kind |-> "blade", edges |-> es] :
                  es \in BladeCatalog \cup {<<e>> : e \in EdgeInputs}},
     n : NBladesChoices]

\* ---- RotorParameters, rotor.py lines 69-154 -------------------------------
\* lengths and radii in units of 1/1000

\* lines 137-138: 0.036
HubInset == 36

blade_params_no_clearance(rp) ==
    [profile_type |-> rp.blade_profile_type,
     blade_length |-> rp.tot_length - rp.hub_front_length - rp.hub_back_length,
     min_radius |-> rp.hub_radius,
     max_radius |-> rp.blade_max_radius]

\* lines 118-130
blade_params(rp) ==
    [profile_type |-> rp.blade_profile_type,
     blade_length |->
        rp.tot_length - rp.hub_front_length - rp.hub_back_length - rp.blade_clearance,
     min_radius |-> rp.hub_radius,
     max_radius |-> rp.blade_max_radius]

\* lines 132-144
hub_params(rp) ==
    [tot_length |-> rp.tot_length,
     radius |-> rp.hub_radius,
     front_length |-> rp.hub_front_length - HubInset,
     back_length |-> rp.hub_back_length - HubInset]

\* lines 146-154
shroud_params(rp) ==
    [in_length |-> rp.tot_length - rp.hub_front_length - rp.hub_back_length,
     in_radius |-> rp.blade_max_radius]

\* rotor.py lines 49-50: the radii at which add_blades looks for fillet edges
FilletCandidateRadii(rp) == <<rp.hub_radius, rp.blade_max_radius>>

\* blade.py lines 111-112: the radii of the top and bottom caps of the blade
CapRadii(bp) == <<bp.max_radius, bp.min_radius>>

\* what add_blades (rotor.py lines 44-50) derives from self.params
DeriveRecords(rp) ==
    [blade_params |-> blade_params(rp),
     hub_params |-> hub_params(rp),
     shroud_params |-> shroud_params(rp),
     candidate_radii |-> FilletCandidateRadii(rp),
     cap_radii |-> CapRadii(blade_params(rp))]

RotorParametersInputs ==
    [fn : {"RotorParameters"},
     rp : [tot_length : {1000, 3000}, hub_front_length : {0, 600},
           hub_back_length : {36, 1200}, blade_clearance : {0, 120},
           hub_radius : {400, 1500}, blade_max_radius : {1500},
           blade_profile_type : {PyInt(FLAT), PyStr("naca")}]]

\* ---- solid_from_faces(faces), occ.py lines 82-107 -------------------------
SolidFromFacesInputs ==
    [fn : {"solid_from_faces"}, faces : {<<>>, <<"face_1", "face_2", "face_3">>},
     shells : SewOutcomes]

\* ---- naca_bend(point, m, p, c), profile.py lines 179-195 ------------------
\* x = xn / PDen, p = pn / PDen, m = mn / MDen, c and y integers; yc and
\* dyc_dx are exact fractions [num, den]

PDen == 4
MDen == 2

\* line 184: m * c * (x / c) * (2 * p - x / c) / (p**2)
camber_forward(xn, mn, pn, c) ==
    [num |-> mn * xn * (2 * pn * c - xn), den |-> MDen * c * pn * pn]

\* line 185: 2 * m / p**2 * (p - x / c)
slope_forward(xn, mn, pn, c) ==
    [num |-> 2 * mn * PDen * (pn * c - xn), den |-> MDen * pn * pn * c]

camber_aft_forward_law(xn, mn, pn, c) ==
    [num |-> mn * (c * PDen - xn) * (c * PDen + xn - 2 * pn * c),
     den |-> MDen * c * pn * pn]

\* line 187: m * c * (c - x) / c * (1 + x / c - 2 * p) / ((1 - p) ** 2)
camber_aft(xn, mn, pn, c) ==
    [num |-> mn * (c * PDen - xn) * (c * PDen + xn - 2 * pn * c),
     den |-> MDen * c * (PDen - pn) * (PDen - pn)]

\* line 188: 2 * m / (1 - p) ** 2 * (p - x / c)
slope_aft(xn, mn, pn, c) ==
    [num |-> 2 * mn * PDen * (pn * c - xn), den |-> MDen * (PDen - pn) * (PDen - pn) * c]

\* lines 179-195. theta = atan(dyc_dx) is 0 exactly when dyc_dx is 0, and then
\* xb = x and yb = yc + y; otherwise the point is left as x, y, yc and dyc_dx
naca_bend(point, mn, pn, c) ==
    LET xn == point[1]
        y == point[2]
    IN
    IF ~(xn >= 0 /\ xn <= c * PDen) THEN [err |-> "AssertionError", at |-> "line 182"]
    ELSE LET fwd == xn < pn * c
             yc == IF fwd THEN camber_forward(xn, mn, pn, c) ELSE camber_aft(xn, mn, pn, c)
             dyc == IF fwd THEN slope_forward(xn, mn, pn, c) ELSE slope_aft(xn, mn, pn, c)
         IN IF yc.den = 0 THEN [err |-> "ZeroDivisionError", at |-> "line 184-188"]
            ELSE [err |-> "none", forward |-> fwd, yc |-> yc, dyc_dx |-> dyc,
                  xb |-> IF dyc.num = 0 THEN [exact |-> TRUE, num |-> xn, den |-> PDen]
                         ELSE [exact |-> FALSE, num |-> xn, den |-> PDen],
                  yb |-> IF dyc.num = 0
                         THEN [exact |-> TRUE, num |-> yc.num + y * yc.den, den |-> yc.den]
                         ELSE [exact |-> FALSE, num |-> yc.num, den |-> yc.den]]

NacaBendInputs ==
    [fn : {"naca_bend"}, x : -1..(MaxChord * PDen + 1), y : {-1, 0, 2}, m : -1..MDen,
     p : 0..PDen, c : 0..MaxChord]

\* ---- one call of one function ---------------------------------------------

InitCalls ==
    /\ pf_pc = "call"
    /\ pf_in \in RotationArrayInputs \cup FlatEllipseInputs \cup NacaInputs
                 \cup FindMAlphaInputs \cup BladeFuncInputs \cup WrapXInputs
                 \cup WrapInputs \cup RotorParametersInputs \cup NacaBendInputs
                 \cup SolidFromFacesInputs
    /\ pf_out = <<>>
    /\ bfIdle /\ rbIdle /\ genIdle /\ ieIdle /\ gsIdle

Return(out) ==
    /\ pf_pc = "call"
    /\ pf_pc' = "done"
    /\ pf_out' = out
    /\ UNCHANGED pf_in

CallRotationArray ==
    /\ pf_in.fn = "rotation_array"
    /\ Return([array |-> rotation_array(pf_in.object, pf_in.n)])

CallFlatEllipse ==
    /\ pf_in.fn = "flat_ellipse"
    /\ Return(flat_ellipse(pf_in.t, pf_in.w, pf_in.c, pf_in.top))

\* the two sides of a profile, create_profile lines 18-21
CallNaca ==
    /\ pf_in.fn = "naca"
    /\ Return([top |-> naca(pf_in.t, pf_in.w, pf_in.c, TRUE, pf_in.close_trail),
               bottom |-> naca(pf_in.t, pf_in.w, pf_in.c, FALSE, pf_in.close_trail)])

CallFindMAlpha ==
    /\ pf_in.fn = "find_m_alpha"
    /\ \E sol \in [m : {0, 1}, chord_angle : {0, 7}] :
          Return(find_m_alpha(pf_in.tea + pf_in.gap, pf_in.tea, pf_in.p, sol))

CallBladeFunc ==
    /\ pf_in.fn = "blade_func"
    /\ Return(blade_func(pf_in.bp, pf_in.u, pf_in.v))

CallWrapOnXAxisCylinder ==
    /\ pf_in.fn = "wrap_point_on_X_axis_cylinder"
    /\ Return(wrap_point_on_X_axis_cylinder(pf_in.point, pf_in.radius))

CallWrapOnCylinder ==
    /\ pf_in.fn = "wrap_point_on_cylinder"
    /\ Return(wrap_point_on_cylinder(pf_in.point, pf_in.axis, pf_in.radius, pf_in.origin))

CallRotorParameters ==
    /\ pf_in.fn = "RotorParameters"
    /\ Return(DeriveRecords(pf_in.rp))

CallSolidFromFaces ==
    /\ pf_in.fn = "solid_from_faces"
    /\ Return(solid_from_faces(pf_in.faces, pf_in.shells))

CallNacaBend ==
    /\ pf_in.fn = "naca_bend"
    /\ Return(naca_bend(<<pf_in.x, pf_in.y>>, pf_in.m, pf_in.p, pf_in.c))

NextCalls ==
    \/ CallNacaBend /\ UNCHANGED <<bfVars, rbVars, genVars, ieVars, gsVars>>
    \/ CallSolidFromFaces /\ UNCHANGED <<bfVars, rbVars, genVars, ieVars, gsVars>>
    \/ CallRotorParameters /\ UNCHANGED <<bfVars, rbVars, genVars, ieVars, gsVars>>
    \/ CallRotationArray /\ UNCHANGED <<bfVars, rbVars, genVars, ieVars, gsVars>>
    \/ CallFlatEllipse /\ UNCHANGED <<bfVars, rbVars, genVars, ieVars, gsVars>>
    \/ CallNaca /\ UNCHANGED <<bfVars, rbVars, genVars, ieVars, gsVars>>
    \/ CallFindMAlpha /\ UNCHANGED <<bfVars, rbVars, genVars, ieVars, gsVars>>
    \/ CallBladeFunc /\ UNCHANGED <<bfVars, rbVars, genVars, ieVars, gsVars>>
    \/ CallWrapOnXAxisCylinder /\ UNCHANGED <<bfVars, rbVars, genVars, ieVars, gsVars>>
    \/ CallWrapOnCylinder /\ UNCHANGED <<bfVars, rbVars, genVars, ieVars, gsVars>>

SpecCalls == InitCalls /\ [][NextCalls]_vars

Called(fn) == pf_pc = "done" /\ pf_in.fn = fn

\* the point v turned about the X axis by q quarter turns
QuarterTurns(v, q) ==
    IF q % 4 = 0 THEN v
    ELSE IF q % 4 = 1 THEN <<v[1], -v[3], v[2]>>
    ELSE IF q % 4 = 2 THEN <<v[1], -v[2], -v[3]>>
    ELSE <<v[1], v[3], -v[2]>>

\* C14: rotation_array(obj, n) with the full-circle angle returns, for every
\* n >= 1, exactly n shapes: element 0 is the input itself and element i
\* (1 <= i < n) is the input with every vertex turned about the X axis by
\* i * 360/n degrees, i.e. by i * 4/n quarter turns.
C14_RotationArray ==
    (Called("rotation_array") /\ pf_in.n >= 1) =>
        /\ Len(pf_out.array) = pf_in.n
        /\ pf_out.array[1] = pf_in.object
        /\ \A i \in 1..(pf_in.n - 1) :
              /\ pf_out.array[i + 1].kind = pf_in.object.kind
              /\ Len(pf_out.array[i + 1].edges) = Len(pf_in.object.edges)
              /\ \A e \in 1..Len(pf_in.object.edges) :
                    /\ Len(pf_out.array[i + 1].edges[e]) = Len(pf_in.object.edges[e])
                    /\ \A k \in 1..Len(pf_in.object.edges[e]) :
                          pf_out.array[i + 1].edges[e][k] =
                              QuarterTurns(pf_in.object.edges[e][k], i * (4 \div pf_in.n))

C14_Witness ==
    /\ Called("rotation_array") /\ pf_in.n = 4
    /\ pf_in.object.edges = << <<<<2, 3, 1>>>> >>
    /\ pf_out.array[2].edges = << <<<<2, -1, 3>>>> >>
    /\ pf_out.array[4].edges = << <<<<2, 1, -3>>>> >>

\* C15: flat_ellipse(t, w, c, top) with c <= 4w fails with an AssertionError
\* for every t in [0,1] and both values of top, before any coordinate is
\* computed; it also fails with an AssertionError for t outside [0,1].
C15_FlatEllipsePrecondition ==
    Called("flat_ellipse") =>
        /\ (pf_in.c * WDen <= 4 * pf_in.w) =>
              (pf_out.err = "AssertionError" /\ ~pf_out.computed)
        /\ (pf_in.t < 0 \/ pf_in.t > TDen) =>
              (pf_out.err = "AssertionError" /\ ~pf_out.computed)

C15_Witness ==
    /\ Called("flat_ellipse")
    /\ pf_in.c = 1 /\ pf_in.w * 4 = WDen * pf_in.c
    /\ pf_in.t = 0 /\ ~pf_in.top
    /\ pf_out.err = "AssertionError" /\ pf_out.at = "line 144"

\* C16: for every w, c and t in [0,1], naca(t, w, c, top=True) and
\* naca(t, w, c, top=False) return the same x and opposite y, and at t = 0
\* both return y = 0.
C16_NacaAntisymmetric ==
    (Called("naca") /\ pf_in.t.s = 1) =>
        /\ pf_out.top.err = "none" /\ pf_out.bottom.err = "none"
        /\ pf_out.top.x = pf_out.bottom.x
        /\ pf_out.top.y = 0 - pf_out.bottom.y
        /\ pf_in.t.k = 0 => (pf_out.top.y = 0 /\ pf_out.bottom.y = 0)

C16_Witness ==
    /\ Called("naca") /\ pf_in.t.s = 1 /\ pf_in.t.k = 1 /\ pf_in.w = 1 /\ pf_in.c = 1
    /\ pf_out.top.y > 0 /\ pf_out.bottom.y < 0

\* C17 (as stated): find_m_alpha(lea, tea, p) returns exactly (0, lea) without
\* running the solver whenever lea and tea differ by at most 1e-4.
C17_ShortcutWithinAbsolute ==
    (Called("find_m_alpha") /\ Abs(pf_in.gap) <= 10000) =>
        /\ ~pf_out.solved
        /\ pf_out.m = 0 /\ pf_out.alpha = pf_in.tea + pf_in.gap

\* C17 (amended): find_m_alpha(lea, tea, p) skips the solver exactly when
\* |lea - tea| <= 1e-8 + 1e-4 * |tea|, in particular whenever lea = tea; it
\* then returns exactly (0, lea) for every p.
C17_ShortcutWithinRelative ==
    Called("find_m_alpha") =>
        /\ ~pf_out.solved <=> (10000 * Abs(pf_in.gap) <= 10000 + Abs(pf_in.tea))
        /\ ~pf_out.solved => (pf_out.m = 0 /\ pf_out.alpha = pf_in.tea + pf_in.gap)
        /\ pf_in.gap = 0 => ~pf_out.solved

C17_Witness ==
    /\ Called("find_m_alpha")
    /\ pf_in.tea = 200000000 /\ pf_in.gap = 20001 /\ pf_in.p = 2
    /\ ~pf_out.solved /\ pf_out.m = 0 /\ pf_out.alpha = 200020001

\* C18: blade_func(u, v) for u in [0,1] calls the first side at local
\* parameter 2u when u < 0.5 and the second side at 2(1-u) when u >= 0.5, so
\* the local parameter is in [0,1]; v in [0,1] maps linearly to the radius
\* min_radius + v*(max_radius - min_radius); u = 0 and u = 1 both give local
\* parameter 0.
C18_BladeFuncSides ==
    Called("blade_func") =>
        /\ 2 * pf_in.u < UDen => (pf_out.side = 0 /\ pf_out.t = 2 * pf_in.u)
        /\ 2 * pf_in.u >= UDen => (pf_out.side = 1 /\ pf_out.t = 2 * UDen - 2 * pf_in.u)
        /\ pf_out.t >= 0 /\ pf_out.t <= UDen
        /\ pf_out.radius =
              VDen * pf_in.bp.min_radius + pf_in.v * (pf_in.bp.max_radius - pf_in.bp.min_radius)
        /\ pf_in.v = 0 => pf_out.radius = VDen * pf_in.bp.min_radius
        /\ pf_in.v = VDen => pf_out.radius = VDen * pf_in.bp.max_radius
        /\ pf_in.u \in {0, UDen} => pf_out.t = 0

C18_Witness ==
    /\ Called("blade_func")
    /\ pf_in.u = UDen /\ pf_in.v = VDen
    /\ pf_in.bp.min_radius = 5 /\ pf_in.bp.max_radius = 10
    /\ pf_out.side = 1 /\ pf_out.t = 0 /\ pf_out.radius = 10 * VDen

\* C19: a blade with profile_type = FLAT evaluates flat_ellipse, one with
\* profile_type = NACA evaluates naca, for every (u, v); a profile kind that
\* is neither is not evaluated with any law.
C19_KindSelectsLaw ==
    Called("blade_func") =>
        /\ PyEq(pf_in.bp.profile_type, PyInt(FLAT)) =>
              (pf_out.law = "flat_ellipse" /\ pf_out.err = "none")
        /\ PyEq(pf_in.bp.profile_type, PyInt(NACA)) =>
              (pf_out.law = "naca" /\ pf_out.err = "none")
        /\ pf_in.bp.profile_type \notin {PyInt(FLAT), PyInt(NACA)} =>
              (pf_out.law = "unbound" /\ pf_out.err # "none")

\* C20: wrap_point_on_X_axis_cylinder and wrap_point_on_cylinder raise an
\* error for every radius <= 0 and return no point.
C20_NonPositiveRadiusRejected ==
    ((Called("wrap_point_on_X_axis_cylinder") \/ Called("wrap_point_on_cylinder"))
        /\ pf_in.radius <= 0) => pf_out.err # "none"

\* C21: for every RotorParameters the derived blade record has blade_length =
\* tot_length - hub_front_length - hub_back_length - blade_clearance,
\* min_radius = hub_radius and max_radius = blade_max_radius (also the shroud
\* inner radius), so the radii at which add_blades looks for fillet
\* candidates are exactly the blade's two cap radii.
C21_BladeRecordConsistent ==
    Called("RotorParameters") =>
        /\ pf_out.blade_params.blade_length =
              pf_in.rp.tot_length - pf_in.rp.hub_front_length
                  - pf_in.rp.hub_back_length - pf_in.rp.blade_clearance
        /\ pf_out.blade_params.min_radius = pf_in.rp.hub_radius
        /\ pf_out.blade_params.max_radius = pf_in.rp.blade_max_radius
        /\ pf_out.shroud_params.in_radius = pf_in.rp.blade_max_radius
        /\ {pf_out.candidate_radii[1], pf_out.candidate_radii[2]} =
              {pf_out.cap_radii[1], pf_out.cap_radii[2]}
        /\ {pf_out.cap_radii[1], pf_out.cap_radii[2]} =
              {pf_out.blade_params.min_radius, pf_out.blade_params.max_radius}

C21_Witness ==
    /\ Called("RotorParameters")
    /\ pf_in.rp.tot_length = 3000 /\ pf_in.rp.hub_front_length = 600
    /\ pf_in.rp.hub_back_length = 1200 /\ pf_in.rp.blade_clearance = 120
    /\ pf_in.rp.hub_radius = 400
    /\ pf_out.blade_params.blade_length = 1080
    /\ pf_out.cap_radii = <<1500, 400>>

\* the stages of a point, innermost first
RECURSIVE StagesOf(_)
StagesOf(point) ==
    IF point.f \in {"naca", "flat_ellipse"} THEN <<point>>
    ELSE Append(StagesOf(point.of), point)

\* C22: for every (u, v) every parameter used by a stage of the pipeline
\* (chord_length, half_width, max_camber, camber_position, profile_angle,
\* mov_vec, radius) is the value of profile_kwargs(radius(v)) passed by the
\* call, never a default bound at mid-span when the pipeline was created.
C22_ParametersFromCallRadius ==
    (Called("blade_func") /\ pf_out.err = "none") =>
        LET stages == StagesOf(pf_out.point)
            r2 == 2 * (VDen * pf_in.bp.min_radius
                       + pf_in.v * (pf_in.bp.max_radius - pf_in.bp.min_radius))
        IN /\ \A i \in 1..Len(stages) : \A q \in DOMAIN stages[i].args :
                 stages[i].args[q] = [key |-> q, radius |-> r2, bound |-> "call"]
           /\ UNION {DOMAIN stages[i].args : i \in 1..Len(stages)} = ProfileKeys

C22_Witness ==
    /\ Called("blade_func") /\ pf_out.err = "none"
    /\ pf_in.v = 0 /\ pf_in.bp.min_radius = 1 /\ pf_in.bp.max_radius = 5
    /\ pf_out.point.args["radius"].radius = 2 * VDen
    /\ StagesOf(pf_out.point)[1].args["chord_length"].bound = "call"

\* C23: every evaluation of a blade function applies the stages in this
\* order: thickness profile, camber bend, rotation, translation, wrap about
\* the X axis; each stage receives the output of the stage before it.
C23_StageOrder ==
    (Called("blade_func") /\ pf_out.err = "none") =>
        /\ pf_out.point.f = "wrap_point_on_X_axis_cylinder"
        /\ pf_out.point.of.f = "add_mov_vec"
        /\ pf_out.point.of.of.f = "rotate_2D_pt"
        /\ pf_out.point.of.of.of.f = "naca_bend"
        /\ pf_out.point.of.of.of.of.f = pf_out.law
        /\ pf_out.point.of.of.of.of.of = [t |-> pf_out.t, top |-> pf_out.side = 0]

C23_Witness ==
    /\ Called("blade_func") /\ pf_out.err = "none"
    /\ pf_in.bp.profile_type = PyStr("naca") /\ pf_in.u = 1
    /\ Len(StagesOf(pf_out.point)) = 5
    /\ StagesOf(pf_out.point)[1].f = "naca"
    /\ StagesOf(pf_out.point)[2].f = "naca_bend"

\* C24: solid_from_faces makes at most 20 sewing attempts, attempt k
\* (k = 0..19) with tolerance 1e-6 * 2^k; it stops at the first attempt whose
\* result is a shell and builds the solid from that result; if none of the
\* 20 attempts gives a shell it raises ValueError and returns no solid.
C24_SewingAttempts ==
    Called("solid_from_faces") =>
        LET ok == pf_in.shells \cap 0..19 IN
        /\ Len(pf_out.tols) <= 20
        /\ \A k \in 0..(Len(pf_out.tols) - 1) : pf_out.tols[k + 1] = Pow(2, k)
        /\ ok # {} =>
              LET earliest == CHOOSE k \in ok : \A j \in ok : k <= j IN
              /\ Len(pf_out.tols) = earliest + 1
              /\ pf_out.sewn = [attempt |-> earliest, tol |-> Pow(2, earliest)]
              /\ pf_out.err = NoError
              /\ pf_out.shape = [kind |-> "solid", faces |-> pf_in.faces]
        /\ ok = {} =>
              /\ Len(pf_out.tols) = 20
              /\ pf_out.err.type = "ValueError"
              /\ pf_out.shape = NoShape

C24_Witness ==
    /\ Called("solid_from_faces")
    /\ pf_in.shells = {3, 7}
    /\ pf_out.tols = <<1, 2, 4, 8>>
    /\ pf_out.sewn.attempt = 3
    /\ pf_out.shape.kind = "solid"

\* the two sides' samples before any seam is inserted: u_func(k/(n-1))/2 for
\* k = 0..n-1 and u_func(k/(n-1))/2 + 1/2 for k = 1..n-2, as a set
SideSamples ==
    LET n == u_points
        f(k) == IF u_func = "sq" THEN 2 * k * k ELSE 2 * k * (n - 1)
    IN {f(k) : k \in 0..(n - 1)} \cup {f(k) + Den(n) \div 2 : k \in 1..(n - 2)}

\* C25: for u_points >= 2 and a strictly increasing easing function with
\* u_func(0) = 0 and u_func(1) = 1, the sample set after seam insertion is
\* sorted ascending, contains every seam value exactly once, contains 0 and
\* 0.5, contains 1 only if 1 is a seam, and has 2*u_points - 2 elements plus
\* one per distinct seam that was not already a sample.
C25_SampleSet ==
    sampled =>
        /\ Ascending(u_vals)
        /\ \A x \in Range(seams_in) : Occurrences(u_vals, x) = 1
        /\ 0 \in Range(u_vals)
        /\ Den(u_points) \div 2 \in Range(u_vals)
        /\ Den(u_points) \in Range(u_vals) => Den(u_points) \in Range(seams_in)
        /\ Len(u_vals) = 2 * u_points - 2 + Cardinality(Range(seams_in) \ SideSamples)

C25_Witness ==
    /\ bf_pc = "returned" /\ sampled
    /\ u_points = 3 /\ u_func = "sq"
    /\ seams_in = <<Den(3), Den(3) \div 4, Den(3) \div 4>>
    /\ u_vals = <<0, 2, 4, 8, 10, 16>>

\* C26: whenever flat_ellipse accepts its inputs (c > 4w passes), the nose
\* region x < 2wc and the tail region x >= c - 2wc are disjoint, i.e.
\* 2wc <= c - 2wc, so a flat mid-section exists between them.
C26_ArcsDisjoint ==
    (Called("flat_ellipse") /\ pf_out.computed) =>
        ANum(pf_in.w, pf_in.c) <= CNum(pf_in.c) - ANum(pf_in.w, pf_in.c)

\* the fraction f is the integer multiple k / MDen of c
IsTimesC(f, k, c) == f.den # 0 /\ f.num * MDen = k * c * f.den

\* C27: in naca_bend, for every m, c > 0 and p in (0,1): the camber ordinate
\* is 0 at x = 0 and at x = c; both segments give m*c at x = p*c with slope 0
\* there; with m = 0 the input point is returned unchanged; an input with
\* x < 0 or x > c is rejected by assertion.
C27_CamberLine ==
    (Called("naca_bend") /\ pf_in.c > 0 /\ pf_in.p > 0 /\ pf_in.p < PDen) =>
        /\ (pf_in.x < 0 \/ pf_in.x > pf_in.c * PDen) <=> pf_out.err = "AssertionError"
        /\ (pf_in.x >= 0 /\ pf_in.x <= pf_in.c * PDen) => pf_out.err = "none"
        /\ pf_in.x = 0 => (pf_out.forward /\ pf_out.yc.num = 0)
        /\ pf_in.x = pf_in.c * PDen => (~pf_out.forward /\ pf_out.yc.num = 0)
        /\ pf_in.x = pf_in.p * pf_in.c =>
              /\ ~pf_out.forward
              /\ IsTimesC(pf_out.yc, pf_in.m, pf_in.c)
              /\ pf_out.dyc_dx.num = 0
        /\ IsTimesC(camber_forward(pf_in.p * pf_in.c, pf_in.m, pf_in.p, pf_in.c),
                    pf_in.m, pf_in.c)
        /\ IsTimesC(camber_aft(pf_in.p * pf_in.c, pf_in.m, pf_in.p, pf_in.c),
                    pf_in.m, pf_in.c)
        /\ slope_forward(pf_in.p * pf_in.c, pf_in.m, pf_in.p, pf_in.c).num = 0
        /\ slope_aft(pf_in.p * pf_in.c, pf_in.m, pf_in.p, pf_in.c).num = 0
        /\ (pf_in.m = 0 /\ pf_out.err = "none") =>
              /\ pf_out.xb = [exact |-> TRUE, num |-> pf_in.x, den |-> PDen]
              /\ pf_out.yb.exact /\ pf_out.yb.num = pf_in.y * pf_out.yb.den

C27_Witness ==
    /\ Called("naca_bend")
    /\ pf_in.c = 2 /\ pf_in.p = 1 /\ pf_in.m = 1 /\ pf_in.x = 2 /\ pf_in.y = 2
    /\ ~pf_out.forward
    /\ pf_out.yc.num * MDen = 2 * pf_out.yc.den
    /\ pf_out.dyc_dx.num = 0

=============================================================================
